---- MODULE Spec2Model ----
(***************************************************************************)
(* The ClawVault sync engine: the manifest diff (SyncEngine.diffManifests), *)
(* the path filter (shouldSyncPath and the exclusion globs), the conflict   *)
(* resolver (SyncResolver) and the execution of a plan (executeSync) over a *)
(* local file store and a remote store.                                     *)
(*                                                                          *)
(* A string of the program is a sequence of one-character strings, so that  *)
(* the path and glob functions are computed character by character as the   *)
(* code computes them.  A timestamp is a number of milliseconds since the   *)
(* epoch; an ISO date string is modelled by the instant it denotes, and an  *)
(* unparsable date string by NaNDate.  A file content is an opaque value    *)
(* and its SHA-256 digest an injective image of it.                         *)
(***************************************************************************)
EXTENDS Integers, Sequences, FiniteSets, TLC

VARIABLES
    settings,            \* SyncEngine.settings (the SyncSettings the engine reads)
    isMobile,            \* SyncResolver.isMobile
    localStore,          \* the vault adapter's files: path -> [content, mtime]
    remoteStore,         \* the server's files:        path -> [content, mtime]
    localManifestCache,  \* SyncEngine.localManifestCache: <<>> (null) or <<entry>>
    now,                 \* Date.now()
    pc,                  \* position of the running sync()
    mode,                \* the SyncMode the caller passes to planSync and executeSync
    plan,                \* the SyncPlan returned by planSync
    idx,                 \* loop index (1-based) inside the current stage
    result,              \* the SyncResult under construction
    renamedTo,           \* history: the conflict copies of the current run,
                         \*   path -> [to: the copy's path, content: the bytes moved]
    runs,                \* number of executeSync calls started
    trace,               \* log of the store operations of the current run
    net,                 \* the SyncClient call under way or last made, and its requests
    building,            \* a planSync overlapping the run: its scan in flight, what it
                         \*   returned, and the number of updateSettings calls
    progress,            \* the onProgress callback of sync(): whether the caller gave
                         \*   one, and the events it has received in the current call
    plugin               \* ClawVaultPlugin: syncState.status, whether syncEngine is set,
                         \*   settings.sync.lastSyncStats, and its syncNow calls

vars == <<settings, isMobile, localStore, remoteStore, localManifestCache, now,
          pc, mode, plan, idx, result, renamedTo, runs, trace, net,
          building, progress, plugin>>

-----------------------------------------------------------------------------
(* Bounds of the model *)

\* file modification times in the initial stores range over 1..MaxTime
MaxTime == 3

\* number of executeSync runs explored
MaxRuns == 1

\* updateSettings calls in one behaviour
MaxUpdates == 1

\* syncNow calls in one behaviour of the plugin
MaxCalls == 2

\* the conflict copies already in the vault have suffixes up to MaxCopies
MaxCopies == 2

-----------------------------------------------------------------------------
(* Strings *)

\* characters in code-unit order, as far as the model uses them
Alphabet ==
    <<" ", "*", "-", ".", "/", "0", "1", "2", "3", "4", "5", "6", "7", "8", "9",
      "?", "\\", "a", "b", "c", "d", "f", "h", "i", "l", "m", "n", "o", "s", "t", "x">>

CharIndex(c) == CHOOSE i \in 1..Len(Alphabet) : Alphabet[i] = c

RECURSIVE LexLess(_, _)
LexLess(a, b) ==
    IF b = <<>> THEN FALSE
    ELSE IF a = <<>> THEN TRUE
    ELSE IF Head(a) = Head(b) THEN LexLess(Tail(a), Tail(b))
    ELSE CharIndex(Head(a)) < CharIndex(Head(b))

\* String.prototype.startsWith
StartsWith(s, prefix) ==
    /\ Len(s) >= Len(prefix)
    /\ SubSeq(s, 1, Len(prefix)) = prefix

\* String.prototype.lastIndexOf for a single character, 1-based; 0 when absent
LastIndexOf(s, c) ==
    LET hits == {i \in 1..Len(s) : s[i] = c}
    IN  IF hits = {} THEN 0 ELSE CHOOSE i \in hits : \A j \in hits : j <= i

\* String.prototype.trim
RECURSIVE TrimLeft(_)
TrimLeft(s) == IF s # <<>> /\ Head(s) = " " THEN TrimLeft(Tail(s)) ELSE s

RECURSIVE TrimRight(_)
TrimRight(s) ==
    IF s # <<>> /\ s[Len(s)] = " " THEN TrimRight(SubSeq(s, 1, Len(s) - 1)) ELSE s

Trim(s) == TrimRight(TrimLeft(s))

\* path.split("/")[0]
FirstSegment(s) ==
    LET slashes == {i \in 1..Len(s) : s[i] = "/"}
    IN  IF slashes = {} THEN s
        ELSE SubSeq(s, 1, (CHOOSE i \in slashes : \A j \in slashes : i <= j) - 1)

-----------------------------------------------------------------------------
(* SyncEngine: path functions *)

RECURSIVE StripLeadingSlashes(_)
StripLeadingSlashes(s) ==
    IF s # <<>> /\ Head(s) = "/" THEN StripLeadingSlashes(Tail(s)) ELSE s

RECURSIVE CollapseSlashes(_)
CollapseSlashes(s) ==
    IF Len(s) < 2 THEN s
    ELSE IF s[1] = "/" /\ s[2] = "/" THEN CollapseSlashes(Tail(s))
    ELSE <<Head(s)>> \o CollapseSlashes(Tail(s))

normalizePath(path) ==
    LET forward == [i \in 1..Len(path) |-> IF path[i] = "\\" THEN "/" ELSE path[i]]
    IN  CollapseSlashes(StripLeadingSlashes(forward))

DotObsidian == <<".", "o", "b", "s", "i", "d", "i", "a", "n">>
DotClawvault == <<".", "c", "l", "a", "w", "v", "a", "u", "l", "t">>

\* the test with the sync server's own directory left out
isInternalPath_ObsidianOnly(path) ==
    LET normalized == normalizePath(path)
    IN  \/ normalized = DotObsidian
        \/ StartsWith(normalized, DotObsidian \o <<"/">>)

isInternalPath(path) ==
    LET normalized == normalizePath(path)
    IN  \/ normalized = DotObsidian
        \/ normalized = DotClawvault
        \/ StartsWith(normalized, DotObsidian \o <<"/">>)
        \/ StartsWith(normalized, DotClawvault \o <<"/">>)

getCategoryForPath(path) ==
    LET first == FirstSegment(normalizePath(path))
    IN  IF first = <<>> \/ Head(first) = "." THEN <<>> ELSE first

-----------------------------------------------------------------------------
(* SyncEngine: exclusion globs.  A compiled RegExp is the sequence of its   *)
(* atoms between the anchors ^ and $:  ".*", "[^/]*", "." or one literal.   *)

DotStar == [t |-> "dotstar", c |-> ""]
SegStar == [t |-> "segstar", c |-> ""]
AnyChar == [t |-> "dot", c |-> ""]
Literal(ch) == [t |-> "lit", c |-> ch]

RECURSIVE compileFrom(_, _)
compileFrom(normalized, i) ==
    IF i > Len(normalized) THEN <<>>
    ELSE IF normalized[i] = "*"
         THEN IF i + 1 <= Len(normalized) /\ normalized[i + 1] = "*"
              THEN <<DotStar>> \o compileFrom(normalized, i + 2)
              ELSE <<SegStar>> \o compileFrom(normalized, i + 1)
    ELSE IF normalized[i] = "?"
         THEN <<AnyChar>> \o compileFrom(normalized, i + 1)
    ELSE <<Literal(normalized[i])>> \o compileFrom(normalized, i + 1)

compileGlobPattern(pattern) == compileFrom(normalizePath(pattern), 1)

\* a line terminator is the one character the RegExp atom "." refuses
IsLineTerminator(ch) == ch = "\n"

\* RegExp.prototype.test for an anchored expression: atoms i.. match s[j..]
RECURSIVE regexMatch(_, _, _, _)
regexMatch(regex, s, i, j) ==
    IF i > Len(regex) THEN j > Len(s)
    ELSE LET atom == regex[i] IN
         CASE atom.t = "dotstar" ->
                \E k \in j..(Len(s) + 1) :
                    /\ \A m \in j..(k - 1) : ~IsLineTerminator(s[m])
                    /\ regexMatch(regex, s, i + 1, k)
           [] atom.t = "segstar" ->
                \E k \in j..(Len(s) + 1) :
                    /\ \A m \in j..(k - 1) : s[m] # "/"
                    /\ regexMatch(regex, s, i + 1, k)
           [] atom.t = "dot" ->
                /\ j <= Len(s)
                /\ ~IsLineTerminator(s[j])
                /\ regexMatch(regex, s, i + 1, j + 1)
           [] OTHER ->
                /\ j <= Len(s)
                /\ s[j] = atom.c
                /\ regexMatch(regex, s, i + 1, j + 1)

regexTest(regex, s) == regexMatch(regex, s, 1, 1)

matchesExcludePatterns(st, path) ==
    \E n \in 1..Len(st.excludePatterns) :
        LET pattern == Trim(st.excludePatterns[n])
        IN  /\ pattern # <<>>
            /\ regexTest(compileGlobPattern(pattern), path)

\* the value of an absent (undefined) category
NoCategory == <<"undefined">>

\* the filter with the allow-list consulted ahead of the exclusion patterns
shouldSyncPath_AllowListFirst(st, path, categoryOverride) ==
    LET normalized == normalizePath(path)
        category == IF categoryOverride # NoCategory THEN categoryOverride
                    ELSE getCategoryForPath(normalized)
    IN  IF normalized = <<>> \/ isInternalPath(normalized) THEN FALSE
        ELSE IF Len(st.syncCategories) = 0
        THEN ~matchesExcludePatterns(st, normalized)
        ELSE IF category = <<>> THEN TRUE
        ELSE \E n \in 1..Len(st.syncCategories) : st.syncCategories[n] = category

shouldSyncPath(st, path, categoryOverride) ==
    LET normalized == normalizePath(path)
        category == IF categoryOverride # NoCategory THEN categoryOverride
                    ELSE getCategoryForPath(normalized)
    IN  IF normalized = <<>> \/ isInternalPath(normalized) THEN FALSE
        ELSE IF matchesExcludePatterns(st, normalized) THEN FALSE
        ELSE IF Len(st.syncCategories) = 0 THEN TRUE
        ELSE IF category = <<>> THEN TRUE
        ELSE \E n \in 1..Len(st.syncCategories) : st.syncCategories[n] = category

-----------------------------------------------------------------------------
(* Contents, digests and dates *)

\* the byte strings a file may hold
Contents == {<<1>>, <<2>>}

\* SyncEngine.sha256: the hex digest of the bytes (injective, never empty)
sha256(data) == <<"sha256">> \o data

\* new Date(ms).toISOString(): the string that denotes the instant ms
toISOString(ms) == <<ms>>

\* a date string that Date.parse cannot read
NaNDate == <<>>

\* Number.isFinite(Date.parse(value))
IsParsable(value) == value # NaNDate

toEpoch(value) == IF IsParsable(value) THEN value[1] ELSE 0

\* new Date().toISOString().slice(0, 10), as characters
IsoDay(ms) ==
    IF ms \div 86400000 = 0
    THEN <<"1", "9", "7", "0", "-", "0", "1", "-", "0", "1">>
    ELSE <<"1", "9", "7", "0", "-", "0", "1", "-", "0", "2">>

-----------------------------------------------------------------------------
(* The two stores.  A store is a function from the paths of its files to   *)
(* [content, mtime].                                                        *)

Depth(p) == Cardinality({i \in 1..Len(p) : p[i] = "/"})

\* adapter.list answers in name order; the walk is breadth-first
PathBefore(a, b) ==
    \/ Depth(a) < Depth(b)
    \/ Depth(a) = Depth(b) /\ LexLess(a, b)

RECURSIVE SortPaths(_)
SortPaths(S) ==
    IF S = {} THEN <<>>
    ELSE LET first == CHOOSE x \in S : \A y \in S \ {x} : PathBefore(x, y)
         IN  <<first>> \o SortPaths(S \ {first})

walkAllFiles(store) ==
    LET listed == SortPaths(DOMAIN store)
    IN  [i \in 1..Len(listed) |-> normalizePath(listed[i])]

RECURSIVE localRecords(_, _, _, _)
localRecords(st, store, files, i) ==
    IF i > Len(files) THEN <<>>
    ELSE LET path == normalizePath(files[i])
             category == getCategoryForPath(path)
             rest == localRecords(st, store, files, i + 1)
         IN  IF path = <<>> \/ isInternalPath(path) THEN rest
             ELSE IF ~shouldSyncPath(st, path, category) THEN rest
             ELSE IF path \notin DOMAIN store THEN rest
             ELSE <<[path |-> path,
                     size |-> Len(store[path].content),
                     checksum |-> sha256(store[path].content),
                     modified |-> toISOString(store[path].mtime),
                     category |-> IF category = <<>> THEN NoCategory ELSE category]>>
                  \o rest

\* the manifest buildLocalManifest assembles when the cache does not answer
scanLocalManifest(st, store, t) ==
    [generatedAt |-> toISOString(t),
     files |-> localRecords(st, store, walkAllFiles(store), 1)]

localManifestCacheTtlMs == 10000

CacheAnswers(cache, t) == cache # <<>> /\ cache[1].expiresAt > t

buildLocalManifest(st, store, cache, t) ==
    IF CacheAnswers(cache, t) THEN cache[1].manifest
    ELSE scanLocalManifest(st, store, t)

\* the cache as buildLocalManifest leaves it
cacheAfterBuild(st, store, cache, t) ==
    IF CacheAnswers(cache, t) THEN cache
    ELSE <<[expiresAt |-> t + localManifestCacheTtlMs,
            manifest |-> scanLocalManifest(st, store, t)]>>

-----------------------------------------------------------------------------
(* SyncClient.fetchManifest.  A field of the payload is <<>> when the      *)
(* server left it out and <<value>> otherwise.                              *)

\* the "files" array the server answers for its store
ServerPayload(store) ==
    LET listed == SortPaths(DOMAIN store)
    IN  [i \in 1..Len(listed) |->
            [path |-> <<listed[i]>>,
             checksum |-> <<sha256(store[listed[i]].content)>>,
             modified |-> <<toISOString(store[listed[i]].mtime)>>,
             size |-> <<Len(store[listed[i]].content)>>,
             category |-> <<>>]]

\* parseManifestFile: <<>> for null, <<record>> otherwise
parseManifestFile(raw) ==
    LET path == normalizePath(IF raw.path # <<>> THEN raw.path[1] ELSE <<>>)
    IN  IF path = <<>> THEN <<>>
        ELSE <<[path |-> path,
                checksum |-> IF raw.checksum # <<>> THEN raw.checksum[1] ELSE <<>>,
                modified |-> IF raw.modified # <<>> THEN raw.modified[1]
                             ELSE toISOString(0),
                size |-> IF raw.size # <<>> THEN raw.size[1] ELSE 0,
                category |-> IF raw.category # <<>> THEN raw.category[1]
                             ELSE FirstSegment(path)]>>

RECURSIVE parsedFiles(_, _)
parsedFiles(rawFiles, i) ==
    IF i > Len(rawFiles) THEN <<>>
    ELSE parseManifestFile(rawFiles[i]) \o parsedFiles(rawFiles, i + 1)

normalizeManifest(rawFiles, t) ==
    [generatedAt |-> toISOString(t), files |-> parsedFiles(rawFiles, 1)]

fetchManifest(store, t) == normalizeManifest(ServerPayload(store), t)

-----------------------------------------------------------------------------
(* SyncEngine.diffManifests.  A Map is the sequence of its values in       *)
(* insertion order; the key of a value is its path.                         *)

MapHas(map, path) == \E k \in 1..Len(map) : map[k].path = path

MapGet(map, path) == map[CHOOSE k \in 1..Len(map) : map[k].path = path]

MapKeys(map) == [k \in 1..Len(map) |-> map[k].path]

\* Map.set: a key that is present keeps its place and takes the new value
MapSet(map, entry) ==
    IF MapHas(map, entry.path)
    THEN [k \in 1..Len(map) |-> IF map[k].path = entry.path THEN entry ELSE map[k]]
    ELSE Append(map, entry)

\* the map that keeps every entry, a path listed twice being held twice
toFileMap_KeepsDuplicates(entries) ==
    [k \in 1..Len(entries) |-> [entries[k] EXCEPT !.path = normalizePath(entries[k].path)]]

RECURSIVE toFileMapFrom(_, _, _)
toFileMapFrom(entries, i, map) ==
    IF i > Len(entries) THEN map
    ELSE toFileMapFrom(entries, i + 1,
            MapSet(map, [entries[i] EXCEPT !.path = normalizePath(entries[i].path)]))

toFileMap(entries) == toFileMapFrom(entries, 1, <<>>)

filterSyncable(st, files) ==
    LET keep(entry) == shouldSyncPath(st, entry.path, entry.category)
    IN  SelectSeq(files, keep)

\* allPathsOf without the Set: a path of both maps is visited twice
allPathsOf_NoDedup(localMap, remoteMap) ==
    MapKeys(localMap) \o MapKeys(remoteMap)

\* the Set built from the keys of both maps, in insertion order
allPathsOf(localMap, remoteMap) ==
    LET notLocal(path) == ~MapHas(localMap, path)
    IN  MapKeys(localMap) \o SelectSeq(MapKeys(remoteMap), notLocal)

\* the gate without its test lastSyncTimestamp > 0
bothModifiedSinceLastSync_NoZeroTest(st, localMtime, remoteMtime) ==
    /\ localMtime > st.lastSyncTimestamp
    /\ remoteMtime > st.lastSyncTimestamp

\* the gate "both sides changed since the last sync"
bothModifiedSinceLastSync(st, localMtime, remoteMtime) ==
    /\ st.lastSyncTimestamp > 0
    /\ localMtime > st.lastSyncTimestamp
    /\ remoteMtime > st.lastSyncTimestamp

\* the if-chain with the time comparisons ahead of the both-modified gate
decideChanged_NewerFirst(m, bothModified, localMtime, remoteMtime) ==
    IF remoteMtime > localMtime /\ m # "push"
    THEN [list |-> "toPull", reason |-> "remote newer"]
    ELSE IF localMtime > remoteMtime /\ m # "pull"
    THEN [list |-> "toPush", reason |-> "local newer"]
    ELSE IF m = "full"
    THEN [list |-> "conflicts", reason |-> ""]
    ELSE IF m = "pull"
    THEN [list |-> "toPull", reason |-> "checksum mismatch"]
    ELSE [list |-> "toPush", reason |-> "checksum mismatch"]

\* the if-chain whose both-modified gate and fallback do not look at the mode
decideChanged_AnyModeConflict(m, bothModified, localMtime, remoteMtime) ==
    IF bothModified
    THEN [list |-> "conflicts", reason |-> ""]
    ELSE IF remoteMtime > localMtime /\ m # "push"
    THEN [list |-> "toPull", reason |-> "remote newer"]
    ELSE IF localMtime > remoteMtime /\ m # "pull"
    THEN [list |-> "toPush", reason |-> "local newer"]
    ELSE [list |-> "conflicts", reason |-> ""]

\* the if-chain for a path on both sides whose checksums differ:
\* the list it is pushed to and the reason of the action
\* a decision that leaves a path alone when the side the mode would overwrite
\* holds the newer copy
decideChanged_KeepsNewer(m, bothModified, localMtime, remoteMtime) ==
    IF bothModified /\ m = "full"
    THEN [list |-> "conflicts", reason |-> ""]
    ELSE IF remoteMtime > localMtime /\ m # "push"
    THEN [list |-> "toPull", reason |-> "remote newer"]
    ELSE IF localMtime > remoteMtime /\ m # "pull"
    THEN [list |-> "toPush", reason |-> "local newer"]
    ELSE IF m = "full"
    THEN [list |-> "conflicts", reason |-> ""]
    ELSE IF localMtime # remoteMtime
    THEN [list |-> "none", reason |-> ""]
    ELSE IF m = "pull"
    THEN [list |-> "toPull", reason |-> "checksum mismatch"]
    ELSE [list |-> "toPush", reason |-> "checksum mismatch"]

decideChanged(m, bothModified, localMtime, remoteMtime) ==
    IF bothModified /\ m = "full"
    THEN [list |-> "conflicts", reason |-> ""]
    ELSE IF remoteMtime > localMtime /\ m # "push"
    THEN [list |-> "toPull", reason |-> "remote newer"]
    ELSE IF localMtime > remoteMtime /\ m # "pull"
    THEN [list |-> "toPush", reason |-> "local newer"]
    ELSE IF m = "full"
    THEN [list |-> "conflicts", reason |-> ""]
    ELSE IF m = "pull"
    THEN [list |-> "toPull", reason |-> "checksum mismatch"]
    ELSE [list |-> "toPush", reason |-> "checksum mismatch"]

\* the turn of the loop with equal checksums taken for unchanged even when empty
classify_EmptyChecksumsEqual(st, localMap, remoteMap, m, path) ==
    LET hasLocal == MapHas(localMap, path)
        hasRemote == MapHas(remoteMap, path)
    IN
    IF ~hasLocal /\ hasRemote THEN
        LET remote == MapGet(remoteMap, path) IN
        IF m # "push"
        THEN [list |-> "toPull",
              entry |-> [path |-> path, direction |-> "pull",
                         reason |-> "new remote file",
                         remoteModified |-> remote.modified, size |-> remote.size]]
        ELSE [list |-> "none", entry |-> [path |-> path]]
    ELSE IF hasLocal /\ ~hasRemote THEN
        LET local == MapGet(localMap, path) IN
        IF m # "pull"
        THEN [list |-> "toPush",
              entry |-> [path |-> path, direction |-> "push",
                         reason |-> "new local file",
                         localModified |-> toEpoch(local.modified), size |-> local.size]]
        ELSE [list |-> "none", entry |-> [path |-> path]]
    ELSE IF ~hasLocal \/ ~hasRemote THEN [list |-> "none", entry |-> [path |-> path]]
    ELSE
        LET local == MapGet(localMap, path)
            remote == MapGet(remoteMap, path)
            localMtime == toEpoch(local.modified)
            remoteMtime == toEpoch(remote.modified)
            decision == decideChanged(m,
                            bothModifiedSinceLastSync(st, localMtime, remoteMtime),
                            localMtime, remoteMtime)
        IN
        IF local.checksum = remote.checksum
        THEN [list |-> "unchanged", entry |-> [path |-> path]]
        ELSE IF decision.list = "conflicts"
        THEN [list |-> "conflicts",
              entry |-> [path |-> path, localModified |-> localMtime,
                         remoteModified |-> remote.modified,
                         localSize |-> local.size, remoteSize |-> remote.size]]
        ELSE [list |-> decision.list,
              entry |-> [path |-> path,
                         direction |-> IF decision.list = "toPull" THEN "pull" ELSE "push",
                         reason |-> decision.reason,
                         localModified |-> localMtime,
                         remoteModified |-> remote.modified,
                         size |-> IF decision.list = "toPull" THEN remote.size
                                  ELSE local.size]]

\* One turn of the loop over allPaths: the list the path is pushed to
\* ("none" when the turn pushes nothing) and the entry pushed.
classify(st, localMap, remoteMap, m, path) ==
    LET hasLocal == MapHas(localMap, path)
        hasRemote == MapHas(remoteMap, path)
    IN
    IF ~hasLocal /\ hasRemote THEN
        LET remote == MapGet(remoteMap, path) IN
        IF m # "push"
        THEN [list |-> "toPull",
              entry |-> [path |-> path, direction |-> "pull",
                         reason |-> "new remote file",
                         remoteModified |-> remote.modified, size |-> remote.size]]
        ELSE [list |-> "none", entry |-> [path |-> path]]
    ELSE IF hasLocal /\ ~hasRemote THEN
        LET local == MapGet(localMap, path) IN
        IF m # "pull"
        THEN [list |-> "toPush",
              entry |-> [path |-> path, direction |-> "push",
                         reason |-> "new local file",
                         localModified |-> toEpoch(local.modified), size |-> local.size]]
        ELSE [list |-> "none", entry |-> [path |-> path]]
    ELSE IF ~hasLocal \/ ~hasRemote THEN [list |-> "none", entry |-> [path |-> path]]
    ELSE
        LET local == MapGet(localMap, path)
            remote == MapGet(remoteMap, path)
            localMtime == toEpoch(local.modified)
            remoteMtime == toEpoch(remote.modified)
            decision == decideChanged(m,
                            bothModifiedSinceLastSync(st, localMtime, remoteMtime),
                            localMtime, remoteMtime)
        IN
        IF local.checksum = remote.checksum /\ Len(local.checksum) > 0
        THEN [list |-> "unchanged", entry |-> [path |-> path]]
        ELSE IF decision.list = "conflicts"
        THEN [list |-> "conflicts",
              entry |-> [path |-> path, localModified |-> localMtime,
                         remoteModified |-> remote.modified,
                         localSize |-> local.size, remoteSize |-> remote.size]]
        ELSE [list |-> decision.list,
              entry |-> [path |-> path,
                         direction |-> IF decision.list = "toPull" THEN "pull" ELSE "push",
                         reason |-> decision.reason,
                         localModified |-> localMtime,
                         remoteModified |-> remote.modified,
                         size |-> IF decision.list = "toPull" THEN remote.size
                                  ELSE local.size]]

\* the entries pushed to one list, in the order of the loop
RECURSIVE collect(_, _, _, _, _, _, _)
collect(st, localMap, remoteMap, m, allPaths, i, list) ==
    IF i > Len(allPaths) THEN <<>>
    ELSE LET turn == classify(st, localMap, remoteMap, m, allPaths[i])
             rest == collect(st, localMap, remoteMap, m, allPaths, i + 1, list)
         IN  IF turn.list = list THEN <<turn.entry>> \o rest ELSE rest

\* the diff that takes a file the vault lacks for one deleted there: what the
\* loop would pull is listed in toDelete
diffManifests_DeletesMissing(st, localManifest, remoteManifest, m) ==
    LET localMap == toFileMap(filterSyncable(st, localManifest.files))
        remoteMap == toFileMap(filterSyncable(st, remoteManifest.files))
        allPaths == allPathsOf(localMap, remoteMap)
        unchangedEntries == collect(st, localMap, remoteMap, m, allPaths, 1, "unchanged")
    IN  [toPull |-> <<>>,
         toPush |-> collect(st, localMap, remoteMap, m, allPaths, 1, "toPush"),
         conflicts |-> collect(st, localMap, remoteMap, m, allPaths, 1, "conflicts"),
         toDelete |-> collect(st, localMap, remoteMap, m, allPaths, 1, "toPull"),
         unchanged |-> [k \in 1..Len(unchangedEntries) |-> unchangedEntries[k].path]]

diffManifests(st, localManifest, remoteManifest, m) ==
    LET localMap == toFileMap(filterSyncable(st, localManifest.files))
        remoteMap == toFileMap(filterSyncable(st, remoteManifest.files))
        allPaths == allPathsOf(localMap, remoteMap)
        unchangedEntries == collect(st, localMap, remoteMap, m, allPaths, 1, "unchanged")
    IN  [toPull |-> collect(st, localMap, remoteMap, m, allPaths, 1, "toPull"),
         toPush |-> collect(st, localMap, remoteMap, m, allPaths, 1, "toPush"),
         conflicts |-> collect(st, localMap, remoteMap, m, allPaths, 1, "conflicts"),
         toDelete |-> <<>>,
         unchanged |-> [k \in 1..Len(unchangedEntries) |-> unchangedEntries[k].path]]

-----------------------------------------------------------------------------
(* SyncResolver *)

createPullAction(conflict, reason) ==
    [path |-> conflict.path, direction |-> "pull", reason |-> reason,
     localModified |-> conflict.localModified,
     remoteModified |-> conflict.remoteModified, size |-> conflict.remoteSize]

createPushAction(conflict, reason) ==
    [path |-> conflict.path, direction |-> "push", reason |-> reason,
     localModified |-> conflict.localModified,
     remoteModified |-> conflict.remoteModified, size |-> conflict.localSize]

\* resolveNewest with >= in place of >: a tie goes to the remote side
resolveNewest_TieToRemote(conflict) ==
    IF IsParsable(conflict.remoteModified)
       /\ toEpoch(conflict.remoteModified) >= conflict.localModified
    THEN [action |-> createPullAction(conflict, "conflict: remote newer"),
          preserveLocalCopy |-> FALSE]
    ELSE [action |-> createPushAction(conflict, "conflict: local newer"),
          preserveLocalCopy |-> FALSE]

resolveNewest(conflict) ==
    IF IsParsable(conflict.remoteModified)
       /\ toEpoch(conflict.remoteModified) > conflict.localModified
    THEN [action |-> createPullAction(conflict, "conflict: remote newer"),
          preserveLocalCopy |-> FALSE]
    ELSE [action |-> createPushAction(conflict, "conflict: local newer"),
          preserveLocalCopy |-> FALSE]

\* resolve whose default branch takes the remote side
resolve_DefaultRemote(mobile, conflict, strategy) ==
    IF strategy = "remote-wins" \/ strategy \notin {"local-wins", "keep-both", "ask",
                                                   "newest-wins"}
    THEN [action |-> createPullAction(conflict, "conflict: remote wins"),
          preserveLocalCopy |-> FALSE]
    ELSE IF strategy = "local-wins"
    THEN [action |-> createPushAction(conflict, "conflict: local wins"),
          preserveLocalCopy |-> FALSE]
    ELSE IF strategy = "keep-both"
    THEN [action |-> createPullAction(conflict, "conflict: keep both"),
          preserveLocalCopy |-> TRUE]
    ELSE resolveNewest(conflict)

\* resolve whose keep-both discards the local copy
resolve_KeepBothDiscards(mobile, conflict, strategy) ==
    IF strategy = "remote-wins"
    THEN [action |-> createPullAction(conflict, "conflict: remote wins"),
          preserveLocalCopy |-> FALSE]
    ELSE IF strategy = "local-wins"
    THEN [action |-> createPushAction(conflict, "conflict: local wins"),
          preserveLocalCopy |-> FALSE]
    ELSE IF strategy = "keep-both"
    THEN [action |-> createPullAction(conflict, "conflict: keep both"),
          preserveLocalCopy |-> FALSE]
    ELSE resolveNewest(conflict)

\* resolve whose ask, where a prompt could be shown, keeps both files
resolve_AskKeepsBoth(mobile, conflict, strategy) ==
    IF strategy = "remote-wins"
    THEN [action |-> createPullAction(conflict, "conflict: remote wins"),
          preserveLocalCopy |-> FALSE]
    ELSE IF strategy = "local-wins"
    THEN [action |-> createPushAction(conflict, "conflict: local wins"),
          preserveLocalCopy |-> FALSE]
    ELSE IF strategy = "keep-both" \/ (strategy = "ask" /\ ~mobile)
    THEN [action |-> createPullAction(conflict, "conflict: keep both"),
          preserveLocalCopy |-> TRUE]
    ELSE resolveNewest(conflict)

RECURSIVE resolve(_, _, _)
resolve(mobile, conflict, strategy) ==
    LET effectiveStrategy ==
            IF strategy = "ask" /\ mobile THEN "newest-wins" ELSE strategy
    IN  CASE effectiveStrategy = "remote-wins" ->
                [action |-> createPullAction(conflict, "conflict: remote wins"),
                 preserveLocalCopy |-> FALSE]
          [] effectiveStrategy = "local-wins" ->
                [action |-> createPushAction(conflict, "conflict: local wins"),
                 preserveLocalCopy |-> FALSE]
          [] effectiveStrategy = "keep-both" ->
                [action |-> createPullAction(conflict, "conflict: keep both"),
                 preserveLocalCopy |-> TRUE]
          [] effectiveStrategy = "ask" -> resolve(mobile, conflict, "newest-wins")
          [] OTHER -> resolveNewest(conflict)

-----------------------------------------------------------------------------
(* SyncEngine.nextConflictPath *)

RECURSIVE DecimalString(_)
DecimalString(n) ==
    LET digit == <<"0", "1", "2", "3", "4", "5", "6", "7", "8", "9">>[(n % 10) + 1]
    IN  IF n < 10 THEN <<digit>> ELSE DecimalString(n \div 10) \o <<digit>>

ConflictWord == <<".", "c", "o", "n", "f", "l", "i", "c", "t", "-">>

folderOf(normalized) ==
    LET slashIndex == LastIndexOf(normalized, "/")
    IN  IF slashIndex >= 1 THEN SubSeq(normalized, 1, slashIndex - 1) ELSE <<>>

fileNameOf(normalized) ==
    LET slashIndex == LastIndexOf(normalized, "/")
    IN  IF slashIndex >= 1 THEN SubSeq(normalized, slashIndex + 1, Len(normalized))
        ELSE normalized

\* extIndex > 0 in the code: the last dot exists and is not the first character
stemOf(fileName) ==
    LET extIndex == LastIndexOf(fileName, ".")
    IN  IF extIndex > 1 THEN SubSeq(fileName, 1, extIndex - 1) ELSE fileName

extensionOf(fileName) ==
    LET extIndex == LastIndexOf(fileName, ".")
    IN  IF extIndex > 1 THEN SubSeq(fileName, extIndex, Len(fileName)) ELSE <<>>

\* the candidate with the conflict marker appended after the extension
conflictCandidate_AfterExtension(path, date, suffix) ==
    normalizePath(path) \o ConflictWord \o date
        \o (IF suffix = 0 THEN <<>> ELSE <<"-">> \o DecimalString(suffix))

\* the candidate tried with the given suffix (0: the first, unsuffixed one)
conflictCandidate(path, date, suffix) ==
    LET normalized == normalizePath(path)
        folder == folderOf(normalized)
        fileName == fileNameOf(normalized)
        candidate == stemOf(fileName) \o ConflictWord \o date
                     \o (IF suffix = 0 THEN <<>> ELSE <<"-">> \o DecimalString(suffix))
                     \o extensionOf(fileName)
    IN  IF folder # <<>> THEN folder \o <<"/">> \o candidate ELSE candidate

\* the first candidate taken without asking whether it exists
probeConflictPath_NoProbe(store, path, date, suffix) ==
    conflictCandidate(path, date, suffix)

RECURSIVE probeConflictPath(_, _, _, _)
probeConflictPath(store, path, date, suffix) ==
    IF conflictCandidate(path, date, suffix) \in DOMAIN store
    THEN probeConflictPath(store, path, date, suffix + 1)
    ELSE conflictCandidate(path, date, suffix)

nextConflictPath(store, path, t) == probeConflictPath(store, path, IsoDay(t), 0)

-----------------------------------------------------------------------------
(* Store operations *)

NoFiles == [p \in {} |-> [content |-> <<>>, mtime |-> 0]]

NoRenames == [p \in {} |-> [to |-> <<>>, content |-> <<>>]]

\* a write that creates a file but leaves an existing file as it is
WriteFile_CreateOnly(store, path, data, t) ==
    IF path \in DOMAIN store THEN store
    ELSE [q \in DOMAIN store \cup {path} |->
             IF q = path THEN [content |-> data, mtime |-> t] ELSE store[q]]

\* adapter.writeBinary / the server's PUT: the file holds data, written at t
WriteFile(store, path, data, t) ==
    [q \in DOMAIN store \cup {path} |->
        IF q = path THEN [content |-> data, mtime |-> t] ELSE store[q]]

\* a rename that loses the file: the source is removed and no target is written
RenameFile_DropsSource(store, from, to) ==
    [q \in DOMAIN store \ {from} |-> store[q]]

\* adapter.rename: the file moves and keeps its content and mtime
RenameFile(store, from, to) ==
    [q \in (DOMAIN store \ {from}) \cup {to} |->
        IF q = to THEN store[from] ELSE store[q]]

\* the server's DELETE
RemoveFile(store, path) == [q \in DOMAIN store \ {path} |-> store[q]]

-----------------------------------------------------------------------------
(* SyncClient: requests and the manifest response *)

\* no call made yet
NetIdle ==
    [op |-> "none", path |-> <<>>, step |-> 0, sent |-> <<>>, outcome |-> "idle",
     error |-> <<>>, body |-> <<>>]

\* request that throws on every status of 400 or more
requestFails_NoAllowList(status, allowStatuses) == status >= 400

\* SyncClient.request: the response makes the request throw
requestFails(status, allowStatuses) == status >= 400 /\ status \notin allowStatuses

\* the message `${method} ${path} failed with ${status}`
requestError(method, path, status) == <<method, " ", path, " failed with ", status>>

ManifestPath ==
    <<"/", ".", "c", "l", "a", "w", "v", "a", "u", "l", "t", "/",
      "m", "a", "n", "i", "f", "e", "s", "t">>

\* the keys isMetadataKey names
MetadataKeys ==
    {<<"g", "e", "n", "e", "r", "a", "t", "e", "d", "A", "t">>,
     <<"t", "i", "m", "e", "s", "t", "a", "m", "p">>,
     <<"u", "p", "d", "a", "t", "e", "d", "A", "t">>,
     <<"f", "i", "l", "e", "s">>, <<"v", "a", "u", "l", "t">>, <<"n", "a", "m", "e">>,
     <<"s", "t", "a", "t", "s">>, <<"v", "e", "r", "s", "i", "o", "n">>}

isMetadataKey(key) == key \in MetadataKeys

looksLikeFilePath(value) ==
    \/ \E i \in 1..Len(value) : value[i] \in {"/", "."}
    \/ value # <<>> /\ value[1] = "_"

\* the loop of normalizeManifest over Object.entries(candidates): the entries
\* are [key, value] and parseManifestFile takes the key for a missing path
RECURSIVE keyedFiles(_, _, _)
keyedFiles(entries, fromFileMap, i) ==
    IF i > Len(entries) THEN <<>>
    ELSE LET key == entries[i].key
             value == entries[i].value
             rest == keyedFiles(entries, fromFileMap, i + 1)
         IN  IF isMetadataKey(key) THEN rest
             ELSE IF ~looksLikeFilePath(key) /\ ~fromFileMap THEN rest
             ELSE parseManifestFile(
                      [value EXCEPT !.path = IF @ # <<>> THEN @ ELSE <<key>>]) \o rest

\* A response body is [kind, files, keyed]: kind "text" (not JSON), "null"
\* (JSON null, false, 0 or ""), "array" or "object"; files is the member
\* "files" of an object: [shape, items] with shape "absent", "array" or "map";
\* keyed holds the other members of an object as [key, value].
Body(kind, shape, items, keyed) ==
    [kind |-> kind, files |-> [shape |-> shape, items |-> items], keyed |-> keyed]

\* fetchManifest on a response: [ok, error, manifest]
fetchManifestFrom(status, body, t) ==
    LET failed(message) ==
            [ok |-> FALSE, error |-> message,
             manifest |-> [generatedAt |-> toISOString(t), files |-> <<>>]]
    IN  IF requestFails(status, {})
        THEN failed(requestError("GET", ManifestPath, status))
        ELSE IF body.kind \in {"text", "null"} THEN failed(<<"Manifest response was empty">>)
        ELSE IF body.kind # "object" THEN failed(<<"Manifest payload is not an object">>)
        ELSE [ok |-> TRUE, error |-> <<>>,
              manifest |->
                  IF body.files.shape = "array"
                  THEN normalizeManifest(body.files.items, t)
                  ELSE [generatedAt |-> toISOString(t),
                        files |-> IF body.files.shape = "map"
                                  THEN keyedFiles(body.files.items, TRUE, 1)
                                  ELSE keyedFiles(body.keyed, FALSE, 1)]]

\* toWebDavPath: "/webdav/" and the non-empty segments of the normalized
\* path, each through encodeURIComponent, joined by "/"
toWebDavPath(remotePath) ==
    LET normalized == normalizePath(remotePath)
        trimmed == IF normalized # <<>> /\ normalized[Len(normalized)] = "/"
                   THEN SubSeq(normalized, 1, Len(normalized) - 1) ELSE normalized
        encodeURIComponent(ch) ==
            CASE ch = " " -> <<"%", "2", "0">>
              [] ch = "?" -> <<"%", "3", "F">>
              [] OTHER -> <<ch>>
        RECURSIVE encoded(_)
        encoded(s) == IF s = <<>> THEN <<>>
                      ELSE (IF Head(s) = "/" THEN <<"/">> ELSE encodeURIComponent(Head(s)))
                           \o encoded(Tail(s))
    IN  <<"/", "w", "e", "b", "d", "a", "v", "/">> \o encoded(trimmed)

\* ensureRemoteDirectories that creates the deepest folder first
ensureRemoteDirectories_LeafFirst(remotePath) ==
    LET normalized == normalizePath(remotePath)
        isSlash(i) == normalized[i] = "/"
        slashes == SelectSeq([i \in 1..Len(normalized) |-> i], isSlash)
    IN  [k \in 1..Len(slashes) |->
            [method |-> "MKCOL",
             path |-> toWebDavPath(
                          SubSeq(normalized, 1, slashes[Len(slashes) + 1 - k] - 1)),
             allowStatuses |-> {201, 301, 405, 409}]]

\* ensureRemoteDirectories: the MKCOL requests it sends, in order
ensureRemoteDirectories(remotePath) ==
    LET normalized == normalizePath(remotePath)
        trimmed == IF normalized # <<>> /\ normalized[Len(normalized)] = "/"
                   THEN SubSeq(normalized, 1, Len(normalized) - 1) ELSE normalized
        isSlash(i) == trimmed[i] = "/"
        slashes == SelectSeq([i \in 1..Len(trimmed) |-> i], isSlash)
    IN  [k \in 1..Len(slashes) |->
            [method |-> "MKCOL",
             path |-> toWebDavPath(SubSeq(trimmed, 1, slashes[k] - 1)),
             allowStatuses |-> {201, 301, 405, 409}]]

\* the requests a call of the client sends when none fails
RequestsOf(op, remotePath) ==
    CASE op = "deleteFile" ->
            <<[method |-> "DELETE", path |-> toWebDavPath(remotePath),
               allowStatuses |-> {200, 202, 204, 404}]>>
      [] op = "putFileBinary" ->
            ensureRemoteDirectories(remotePath)
                \o <<[method |-> "PUT", path |-> toWebDavPath(remotePath),
                      allowStatuses |-> {200, 201, 204}]>>
      [] OTHER ->
            <<[method |-> "GET", path |-> toWebDavPath(remotePath), allowStatuses |-> {}]>>

\* no planSync beside the run, no updateSettings call yet
NoBuild == [scan |-> <<>>, cachedTag |-> 0, returned |-> <<>>, updates |-> 0]

-----------------------------------------------------------------------------
(* The run of sync(mode): planSync, then executeSync stage by stage *)

EmptyPlan ==
    [toPull |-> <<>>, toPush |-> <<>>, conflicts |-> <<>>, toDelete |-> <<>>,
     unchanged |-> <<>>]

\* result.planned is the variable plan
NewResult(pl, t) ==
    [pulled |-> 0, pushed |-> 0, conflicts |-> 0, deleted |-> 0,
     unchanged |-> Len(pl.unchanged), errors |-> <<>>,
     startedAt |-> t, endedAt |-> t]

\* executeSync with the push stage ahead of the pull stage
Stages_PushFirst == <<"pushing", "pulling", "conflicts", "deleting">>

Stages == <<"pulling", "pushing", "conflicts", "deleting">>

StageIndex(stage) == CHOOSE k \in 1..Len(Stages) : Stages[k] = stage

\* the stage tests with the conflict loop run in every mode
StageEnabled_ConflictsAlways(m, stage) ==
    CASE stage = "pulling" -> m # "push"
      [] stage = "pushing" -> m # "pull"
      [] stage = "conflicts" -> TRUE
      [] OTHER -> m = "full"

StageEnabled(m, stage) ==
    CASE stage = "pulling" -> m # "push"
      [] stage = "pushing" -> m # "pull"
      [] stage = "conflicts" -> m = "full"
      [] OTHER -> m = "full"

StageList(pl, stage) ==
    CASE stage = "pulling" -> pl.toPull
      [] stage = "pushing" -> pl.toPush
      [] stage = "conflicts" -> pl.conflicts
      [] OTHER -> pl.toDelete

\* the first action at or after stage k, or the end of executeSync
RECURSIVE firstFrom(_, _, _)
firstFrom(pl, m, k) ==
    IF k > Len(Stages) THEN [pc |-> "completing", idx |-> 0]
    ELSE IF StageEnabled(m, Stages[k]) /\ Len(StageList(pl, Stages[k])) > 0
    THEN [pc |-> Stages[k], idx |-> 1]
    ELSE firstFrom(pl, m, k + 1)

\* the action after action i of the stage
advance(pl, m, stage, i) ==
    IF i < Len(StageList(pl, stage)) THEN [pc |-> stage, idx |-> i + 1]
    ELSE firstFrom(pl, m, StageIndex(stage) + 1)

\* sync() called without onProgress, before its first call
NoProgress == [given |-> FALSE, events |-> <<>>]

\* onProgress?.(event): the callback, if the caller gave one, receives the event
onProgress(p, event) == IF p.given THEN [p EXCEPT !.events = Append(@, event)] ELSE p

\* the first event of a call of sync(): planSync reports the planning stage
planningProgress(p) ==
    onProgress([p EXCEPT !.events = <<>>],
               [stage |-> "planning", current |-> 0, total |-> 1, path |-> <<>>,
                attempted |-> 0])

\* the event of action number i (from 1) of a list: index + 1 of actions.length,
\* with the action's path; attempted is the number of operations logged so far
actionProgress(stage, i, list) ==
    [stage |-> stage, current |-> i, total |-> Len(list), path |-> list[i].path,
     attempted |-> Len(trace)]

\* the last event of executeSync
completeProgress ==
    [stage |-> "complete", current |-> 1, total |-> 1, path |-> <<>>,
     attempted |-> Len(trace)]

\* the plugin after reconfigureSync with a server URL, before any syncNow
PluginIdle ==
    [status |-> "idle", configured |-> TRUE, lastSyncStats |-> <<>>, calls |-> <<>>,
     testing |-> 0, reconfigured |-> 0]

\* planSync(mode): both manifests, then the diff
PlanSync ==
    /\ pc \in {"idle", "done"}
    /\ plan' = diffManifests(settings,
                   buildLocalManifest(settings, localStore, localManifestCache, now),
                   fetchManifest(remoteStore, now), mode)
    /\ localManifestCache' =
           cacheAfterBuild(settings, localStore, localManifestCache, now)
    /\ pc' = "planned"
    /\ idx' = 0
    /\ progress' = planningProgress(progress)
    /\ UNCHANGED <<plugin, building, net, settings, isMobile, localStore, remoteStore, now, mode, result,
                   renamedTo, runs, trace>>

ExecuteSyncBegin ==
    /\ pc = "planned"
    /\ runs < MaxRuns
    /\ runs' = runs + 1
    /\ result' = NewResult(plan, now)
    /\ trace' = <<>>
    /\ renamedTo' = NoRenames
    /\ pc' = firstFrom(plan, mode, 1).pc
    /\ idx' = firstFrom(plan, mode, 1).idx
    /\ UNCHANGED <<plugin, progress, building, net, settings, isMobile, localStore, remoteStore,
                   localManifestCache, now, mode, plan>>

LogEntry(op, path, target, ok) == [op |-> op, path |-> path, target |-> target, ok |-> ok]

ErrorEntry(path, message) == [path |-> path, message |-> message]

\* pullFile succeeds only if the server has the file
CanPull(path) == path \in DOMAIN remoteStore

\* pushFile succeeds only if the vault has the file
CanPush(path) == path \in DOMAIN localStore

\* onSuccess of the stage: the counter it increments
bumpCounter(res, stage) ==
    CASE stage = "pulling" -> [res EXCEPT !.pulled = @ + 1]
      [] stage = "pushing" -> [res EXCEPT !.pushed = @ + 1]
      [] stage = "conflicts" -> [res EXCEPT !.conflicts = @ + 1]
      [] OTHER -> [res EXCEPT !.deleted = @ + 1]

\* a catch block that drops the error
recordError_Swallowed(res, path, message) == res

\* the catch block: one entry for the action's path
recordError(res, path, message) ==
    [res EXCEPT !.errors = Append(@, ErrorEntry(path, message))]

\* one turn of the loop of applyActions
ApplyAction ==
    /\ pc \in {"pulling", "pushing", "deleting"}
    /\ LET path == StageList(plan, pc)[idx].path
           next == advance(plan, mode, pc, idx)
       IN  \E ok \in BOOLEAN :
             LET done == CASE pc = "pulling" -> ok /\ CanPull(path)
                           [] pc = "pushing" -> ok /\ CanPush(path)
                           [] OTHER -> ok
                 op == CASE pc = "pulling" -> "pull"
                         [] pc = "pushing" -> "push"
                         [] OTHER -> "delete"
             IN  /\ localStore' =
                        IF done /\ pc = "pulling"
                        THEN WriteFile(localStore, path, remoteStore[path].content, now)
                        ELSE localStore
                 /\ remoteStore' =
                        IF done /\ pc = "pushing"
                        THEN WriteFile(remoteStore, path, localStore[path].content, now)
                        ELSE IF done /\ pc = "deleting"
                        THEN RemoveFile(remoteStore, path)
                        ELSE remoteStore
                 /\ result' = IF done THEN bumpCounter(result, pc)
                              ELSE recordError(result, path, "action failed")
                 /\ trace' = Append(trace, LogEntry(op, path, <<>>, done))
                 /\ pc' = next.pc
                 /\ idx' = next.idx
    /\ progress' = onProgress(progress,
                        actionProgress(IF pc = "pulling" THEN "pulling" ELSE "pushing",
                                       idx, StageList(plan, pc)))
    /\ now' = now + 1
    /\ UNCHANGED <<plugin, building, net, settings, isMobile, localManifestCache, mode, plan, renamedTo, runs>>

CurrentResolution == resolve(isMobile, plan.conflicts[idx], settings.conflictStrategy)

\* resolveConflict, first await: renameLocalToConflictCopy
ResolveConflictRename ==
    /\ pc = "conflicts"
    /\ CurrentResolution.preserveLocalCopy
    /\ LET path == plan.conflicts[idx].path
           next == advance(plan, mode, pc, idx)
       IN  /\ path \in DOMAIN localStore
           /\ \E ok \in BOOLEAN :
                LET renamedPath == nextConflictPath(localStore, path, now)
                IN  IF ok
                    THEN /\ localStore' = RenameFile(localStore, path, renamedPath)
                         /\ renamedTo' = (path :> [to |-> renamedPath,
                                                  content |-> localStore[path].content])
                                            @@ renamedTo
                         /\ trace' = Append(trace, LogEntry("rename", path, renamedPath, TRUE))
                         /\ pc' = "transfer"
                         /\ UNCHANGED <<result, idx>>
                    ELSE /\ result' = recordError(result, path, "rename failed")
                         /\ trace' = Append(trace, LogEntry("rename", path, renamedPath, FALSE))
                         /\ pc' = next.pc
                         /\ idx' = next.idx
                         /\ UNCHANGED <<localStore, renamedTo>>
    /\ progress' = onProgress(progress, actionProgress("conflicts", idx, plan.conflicts))
    /\ now' = now + 1
    /\ UNCHANGED <<plugin, building, net, settings, isMobile, remoteStore, localManifestCache, mode, plan, runs>>

\* resolveConflict, after the rename (if any): pullFile or pushFile
ResolveConflictTransfer ==
    /\ \/ pc = "transfer"
       \/ /\ pc = "conflicts"
          /\ ~(CurrentResolution.preserveLocalCopy
               /\ plan.conflicts[idx].path \in DOMAIN localStore)
    /\ LET path == plan.conflicts[idx].path
           direction == CurrentResolution.action.direction
           next == advance(plan, mode, "conflicts", idx)
       IN  \E ok \in BOOLEAN :
             LET done == IF direction = "pull" THEN ok /\ CanPull(path)
                         ELSE ok /\ CanPush(path)
             IN  /\ localStore' =
                        IF done /\ direction = "pull"
                        THEN WriteFile(localStore, path, remoteStore[path].content, now)
                        ELSE localStore
                 /\ remoteStore' =
                        IF done /\ direction = "push"
                        THEN WriteFile(remoteStore, path, localStore[path].content, now)
                        ELSE remoteStore
                 /\ result' = IF done THEN bumpCounter(result, "conflicts")
                              ELSE recordError(result, path, "conflict failed")
                 /\ trace' = Append(trace, LogEntry(direction, path, <<>>, done))
                 /\ pc' = next.pc
                 /\ idx' = next.idx
    /\ progress' = IF pc = "conflicts"
                   THEN onProgress(progress, actionProgress("conflicts", idx, plan.conflicts))
                   ELSE progress
    /\ now' = now + 1
    /\ UNCHANGED <<plugin, building, net, settings, isMobile, localManifestCache, mode, plan, renamedTo, runs>>

\* the end of executeSync reporting completion only for a run without errors
ExecuteSyncComplete_QuietOnErrors ==
    /\ pc = "completing"
    /\ result' = [result EXCEPT !.endedAt = now]
    /\ localManifestCache' = <<>>
    /\ pc' = "done"
    /\ progress' = IF result.errors = <<>> THEN onProgress(progress, completeProgress)
                   ELSE progress
    /\ UNCHANGED <<plugin, building, net, settings, isMobile, localStore, remoteStore, now,
                   mode, plan, idx, renamedTo, runs, trace>>

\* the end of executeSync without the reset of the local-manifest cache
ExecuteSyncComplete_KeepsCache ==
    /\ pc = "completing"
    /\ result' = [result EXCEPT !.endedAt = now]
    /\ pc' = "done"
    /\ progress' = onProgress(progress, completeProgress)
    /\ UNCHANGED <<plugin, building, net, settings, isMobile, localStore, remoteStore, localManifestCache, now,
                   mode, plan, idx, renamedTo, runs, trace>>

ExecuteSyncComplete ==
    /\ pc = "completing"
    /\ result' = [result EXCEPT !.endedAt = now]
    /\ localManifestCache' = <<>>
    /\ pc' = "done"
    /\ progress' = onProgress(progress, completeProgress)
    /\ UNCHANGED <<plugin, building, net, settings, isMobile, localStore, remoteStore, now, mode, plan, idx,
                   renamedTo, runs, trace>>

-----------------------------------------------------------------------------
(* Initial states *)

RootNote == <<"a", ".", "m">>
TaskNote == <<"t", "/", "a", ".", "m">>
DecisionNote == <<"d", "/", "a", ".", "m">>
HiddenNote == <<".", "h", "/", "a">>

Paths == {RootNote, TaskNote, DecisionNote, HiddenNote}

Modes == {"full", "pull", "push"}

Strategies == {"remote-wins", "local-wins", "newest-wins", "keep-both", "ask"}

\* syncCategories: empty (all categories) or the allow-list ["t"]
CategoryChoices == {<<>>, <<<<"t">>>>}

\* excludePatterns: none, "*.m", "**/*.m", and [" ", "t/?.m "]
ExcludeChoices ==
    {<<>>,
     <<<<"*", ".", "m">>>>,
     <<<<"*", "*", "/", "*", ".", "m">>>>,
     << <<" ">>, <<"t", "/", "?", ".", "m", " ">> >>}

\* the states of one path: the file it has locally and remotely, if any.
\* Only the equality of the two contents is observable, so the local one is fixed.
LocalFiles == [content : {<<1>>}, mtime : 1..MaxTime]
RemoteFiles == [content : Contents, mtime : 1..MaxTime]

\* the stores that hold the path p in any state and nothing else
StoresOf(p) ==
    {<<l, r>> : l \in {NoFiles} \cup {(p :> f) : f \in LocalFiles},
                r \in {NoFiles} \cup {(p :> f) : f \in RemoteFiles}}

\* a second file on one side only, or none
CompanionOf(q) ==
    {<<NoFiles, NoFiles>>,
     <<(q :> [content |-> <<1>>, mtime |-> 1]), NoFiles>>,
     <<NoFiles, (q :> [content |-> <<2>>, mtime |-> 1])>>}

InitEngine ==
    /\ localManifestCache = <<>>
    /\ net = NetIdle
    /\ building = NoBuild
    /\ progress = NoProgress
    /\ plugin = PluginIdle
    /\ now = MaxTime + 1
    /\ pc = "idle"
    /\ mode \in Modes
    /\ plan = EmptyPlan
    /\ idx = 0
    /\ result = NewResult(EmptyPlan, 0)
    /\ renamedTo = NoRenames
    /\ runs = 0
    /\ trace = <<>>

\* a vault and a server holding TaskNote in any state and possibly a second file
Init ==
    /\ \E a \in StoresOf(TaskNote),
          b \in CompanionOf(RootNote) \cup CompanionOf(HiddenNote) :
          /\ localStore = a[1] @@ b[1]
          /\ remoteStore = a[2] @@ b[2]
    /\ \E ts \in {0, 1}, strategy \in Strategies, cats \in CategoryChoices :
          settings = [lastSyncTimestamp |-> ts, conflictStrategy |-> strategy,
                      syncCategories |-> cats, excludePatterns |-> <<>>]
    /\ isMobile \in (IF settings.conflictStrategy = "ask" THEN BOOLEAN ELSE {FALSE})
    /\ InitEngine

Next ==
    \/ PlanSync
    \/ ExecuteSyncBegin
    \/ ApplyAction
    \/ ResolveConflictRename
    \/ ResolveConflictTransfer
    \/ ExecuteSyncComplete

Spec == Init /\ [][Next]_vars

\* planning alone, over any one path in any state, a companion and any filter
InitPlan ==
    /\ \E p \in Paths : \E q \in Paths \ {p} :
       \E a \in StoresOf(p), b \in CompanionOf(q) :
          /\ localStore = a[1] @@ b[1]
          /\ remoteStore = a[2] @@ b[2]
    /\ \E ts \in 0..(MaxTime - 1), cats \in CategoryChoices, excl \in ExcludeChoices :
          settings = [lastSyncTimestamp |-> ts, conflictStrategy |-> "newest-wins",
                      syncCategories |-> cats, excludePatterns |-> excl]
    /\ isMobile = FALSE
    /\ InitEngine

NextPlan == PlanSync

SpecPlan == InitPlan /\ [][NextPlan]_vars

-----------------------------------------------------------------------------
(* diffManifests on any pair of manifests of one path.  planSync holds both   *)
(* manifests (pc = "fetched"): the local one is in the cache and the remote   *)
(* one is the body of the manifest response, with or without a checksum.  The *)
(* local checksum ranges over the empty string too, which no scan produces.   *)

DiffChecksums == {<<>>, sha256(<<1>>), sha256(<<2>>)}

InitDiff ==
    /\ localStore = NoFiles
    /\ remoteStore = NoFiles
    /\ \E ts \in {0, 1} :
          settings = [lastSyncTimestamp |-> ts, conflictStrategy |-> "newest-wins",
                      syncCategories |-> <<>>, excludePatterns |-> <<>>]
    /\ isMobile = FALSE
    /\ now = MaxTime + 1
    /\ \E path \in {RootNote, TaskNote}, localSum \in DiffChecksums,
          remoteSum \in {<<>>} \cup {<<c>> : c \in DiffChecksums \ {<<>>}},
          localTime \in 1..MaxTime, remoteTime \in 1..MaxTime :
          /\ localManifestCache =
                 <<[expiresAt |-> now + localManifestCacheTtlMs,
                    manifest |->
                        [generatedAt |-> toISOString(now),
                         files |-> <<[path |-> path, size |-> 1, checksum |-> localSum,
                                      modified |-> toISOString(localTime),
                                      category |->
                                          IF getCategoryForPath(path) = <<>>
                                          THEN NoCategory
                                          ELSE getCategoryForPath(path)]>>]]>>
          /\ net = [op |-> "fetchManifest", path |-> ManifestPath, step |-> 1,
                    sent |-> <<[method |-> "GET", path |-> ManifestPath, status |-> 200]>>,
                    outcome |-> "ok", error |-> <<>>,
                    body |-> <<Body("object", "array",
                                    <<[path |-> <<path>>, checksum |-> remoteSum,
                                       modified |-> <<toISOString(remoteTime)>>,
                                       size |-> <<1>>, category |-> <<>>]>>,
                                    <<>>)>>]
    /\ building = NoBuild
    /\ progress = NoProgress
    /\ plugin = PluginIdle
    /\ pc = "fetched"
    /\ mode \in Modes
    /\ plan = EmptyPlan
    /\ idx = 0
    /\ result = NewResult(EmptyPlan, 0)
    /\ renamedTo = NoRenames
    /\ runs = 0
    /\ trace = <<>>

\* the last statement of planSync
DiffManifests ==
    /\ pc = "fetched"
    /\ plan' = diffManifests(settings, localManifestCache[1].manifest,
                             fetchManifestFrom(200, net.body[1], now).manifest, mode)
    /\ pc' = "planned"
    /\ UNCHANGED <<settings, isMobile, localStore, remoteStore, localManifestCache, now, mode,
                   idx, result, renamedTo, runs, trace, net, building, progress, plugin>>

NextDiff == DiffManifests

SpecDiff == InitDiff /\ [][NextDiff]_vars

-----------------------------------------------------------------------------
(* diffManifests on manifests that list one file up to twice, under any of    *)
(* its spellings.  The first and the second record of a manifest differ in    *)
(* checksum and time, so that the record a map ends with decides the list.    *)

\* tasks/a.m as it is, with a leading slash, with a doubled slash and with a
\* backslash
Spellings ==
    {TaskNote, <<"/">> \o TaskNote, <<"t", "/", "/", "a", ".", "m">>,
     <<"t", "\\", "a", ".", "m">>}

InitSpellings ==
    LET UpToTwo == {<<>>} \cup {<<a>> : a \in Spellings}
                       \cup {<<a, b>> : a \in Spellings, b \in Spellings}
    IN
    /\ localStore = NoFiles
    /\ remoteStore = NoFiles
    /\ \E ts \in {0, 1} :
          settings = [lastSyncTimestamp |-> ts, conflictStrategy |-> "newest-wins",
                      syncCategories |-> <<>>, excludePatterns |-> <<>>]
    /\ isMobile = FALSE
    /\ now = MaxTime + 1
    /\ \E localPaths \in UpToTwo, remotePaths \in UpToTwo :
          /\ localManifestCache =
                 <<[expiresAt |-> now + localManifestCacheTtlMs,
                    manifest |->
                        [generatedAt |-> toISOString(now),
                         files |-> [k \in 1..Len(localPaths) |->
                                       [path |-> localPaths[k], size |-> 1,
                                        checksum |-> sha256(<<k>>),
                                        modified |-> toISOString(k + 1),
                                        category |-> getCategoryForPath(localPaths[k])]]]]>>
          /\ net = [op |-> "fetchManifest", path |-> ManifestPath, step |-> 1,
                    sent |-> <<[method |-> "GET", path |-> ManifestPath, status |-> 200]>>,
                    outcome |-> "ok", error |-> <<>>,
                    body |-> <<Body("object", "array",
                                    [k \in 1..Len(remotePaths) |->
                                        [path |-> <<remotePaths[k]>>,
                                         checksum |-> <<sha256(<<3 - k>>)>>,
                                         modified |-> <<toISOString(4 - k)>>,
                                         size |-> <<1>>, category |-> <<>>]],
                                    <<>>)>>]
    /\ building = NoBuild
    /\ progress = NoProgress
    /\ plugin = PluginIdle
    /\ pc = "fetched"
    /\ mode \in Modes
    /\ plan = EmptyPlan
    /\ idx = 0
    /\ result = NewResult(EmptyPlan, 0)
    /\ renamedTo = NoRenames
    /\ runs = 0
    /\ trace = <<>>

SpecSpellings == InitSpellings /\ [][NextDiff]_vars

-----------------------------------------------------------------------------
(* Runs over stores that hold files of the internal directories *)

\* .obsidian/a, .clawvault/a and the same written with a leading slash and a
\* doubled slash
ReservedPaths ==
    {DotObsidian \o <<"/", "a">>, DotClawvault \o <<"/", "a">>,
     <<"/">> \o DotObsidian \o <<"/", "/", "a">>}

\* the internal file on either side or on both, with different contents, next
\* to TaskNote in conflict and RootNote in the vault only
InitReserved ==
    /\ \E p \in ReservedPaths, sides \in {"local", "remote", "both"} :
          /\ localStore =
                 (RootNote :> [content |-> <<1>>, mtime |-> 1])
                 @@ (TaskNote :> [content |-> <<1>>, mtime |-> 2])
                 @@ (IF sides # "remote" THEN (p :> [content |-> <<1>>, mtime |-> 2])
                     ELSE NoFiles)
          /\ remoteStore =
                 (TaskNote :> [content |-> <<2>>, mtime |-> 2])
                 @@ (IF sides # "local" THEN (p :> [content |-> <<2>>, mtime |-> 3])
                     ELSE NoFiles)
    /\ \E cats \in {<<>>, <<DotObsidian>>}, excl \in {<<>>, <<<<"*", ".", "m">>>>} :
          settings = [lastSyncTimestamp |-> 0, conflictStrategy |-> "keep-both",
                      syncCategories |-> cats, excludePatterns |-> excl]
    /\ isMobile = FALSE
    /\ InitEngine

SpecReserved == InitReserved /\ [][Next]_vars

-----------------------------------------------------------------------------
(* Runs over a vault that already holds conflict copies of the path in conflict *)

\* TaskNote in conflict under keep-both, and earlier copies of it made the same
\* day with any of the suffixes none, -1, ..., -MaxCopies
InitCopies ==
    /\ \E taken \in SUBSET (0..MaxCopies) :
          localStore =
              (TaskNote :> [content |-> <<1>>, mtime |-> 2])
              @@ [c \in {conflictCandidate(TaskNote, IsoDay(MaxTime + 1), n) : n \in taken}
                     |-> [content |-> <<2>>, mtime |-> 1]]
    /\ remoteStore = (TaskNote :> [content |-> <<2>>, mtime |-> 2])
    /\ \E ts \in {0, 1} :
          settings = [lastSyncTimestamp |-> ts, conflictStrategy |-> "keep-both",
                      syncCategories |-> <<>>, excludePatterns |-> <<>>]
    /\ isMobile = FALSE
    /\ InitEngine

SpecCopies == InitCopies /\ [][Next]_vars

-----------------------------------------------------------------------------
(* sync(mode) against a server that answers the manifest request in any way *)

ManifestStatuses == {200, 404, 500}

\* the bodies a server may answer for its store: no JSON, a falsy JSON value,
\* an array, an empty object, an object with metadata only, and the three
\* shapes that carry the files (files array, files map, paths as keys)
ManifestBodies(store) ==
    LET raw == ServerPayload(store)
        keyed == [i \in 1..Len(raw) |->
                     [key |-> raw[i].path[1], value |-> [raw[i] EXCEPT !.path = <<>>]]]
        vault == <<[key |-> <<"v", "a", "u", "l", "t">>,
                    value |-> [path |-> <<>>, checksum |-> <<>>, modified |-> <<>>,
                               size |-> <<>>, category |-> <<>>]]>>
    IN  {Body("text", "absent", <<>>, <<>>), Body("null", "absent", <<>>, <<>>),
         Body("array", "absent", <<>>, <<>>), Body("object", "absent", <<>>, <<>>),
         Body("object", "absent", <<>>, vault), Body("object", "array", raw, <<>>),
         Body("object", "map", keyed, <<>>), Body("object", "absent", <<>>, keyed)}

\* planSync that takes a failed fetch for an empty remote manifest
PlanSyncFetch_EmptyOnFailure ==
    /\ pc \in {"idle", "done", "failed"}
    /\ \E status \in ManifestStatuses, body \in ManifestBodies(remoteStore) :
          LET fetched == fetchManifestFrom(status, body, now)
          IN  /\ net' = [op |-> "fetchManifest", path |-> ManifestPath, step |-> 1,
                         sent |-> <<[method |-> "GET", path |-> ManifestPath,
                                     status |-> status]>>,
                         outcome |-> IF fetched.ok THEN "ok" ELSE "error",
                         error |-> fetched.error, body |-> <<body>>]
              /\ plan' = diffManifests(settings,
                             buildLocalManifest(settings, localStore,
                                                localManifestCache, now),
                             fetched.manifest, mode)
    /\ localManifestCache' = cacheAfterBuild(settings, localStore, localManifestCache, now)
    /\ pc' = "planned"
    /\ idx' = 0
    /\ progress' = planningProgress(progress)
    /\ UNCHANGED <<plugin, building, settings, isMobile, localStore, remoteStore, now, mode, result,
                   renamedTo, runs, trace>>

\* planSync(mode) as sync calls it: Promise.all of fetchManifest and
\* buildLocalManifest, either of which may reject; then diffManifests.
\* caller is the plugin as the statements before the call of sync leave it.
PlanSyncCalled(caller) ==
    /\ pc \in {"idle", "done", "failed"}
    /\ \E status \in ManifestStatuses, body \in ManifestBodies(remoteStore),
          buildFails \in BOOLEAN :
          LET fetched == fetchManifestFrom(status, body, now)
          IN  /\ net' = [op |-> "fetchManifest", path |-> ManifestPath, step |-> 1,
                         sent |-> <<[method |-> "GET", path |-> ManifestPath,
                                     status |-> status]>>,
                         outcome |-> IF fetched.ok THEN "ok" ELSE "error",
                         error |-> fetched.error, body |-> <<body>>]
              /\ localManifestCache' =
                     IF buildFails THEN localManifestCache
                     ELSE cacheAfterBuild(settings, localStore, localManifestCache, now)
              /\ IF fetched.ok /\ ~buildFails
                 THEN /\ plan' = diffManifests(settings,
                                     buildLocalManifest(settings, localStore,
                                                        localManifestCache, now),
                                     fetched.manifest, mode)
                      /\ pc' = "planned"
                      /\ idx' = 0
                 ELSE /\ pc' = "failed"
                      /\ UNCHANGED <<plan, idx>>
    /\ progress' = planningProgress(progress)
    /\ plugin' = caller
    /\ UNCHANGED <<building, settings, isMobile, localStore, remoteStore, now, mode, result,
                   renamedTo, runs, trace>>

\* sync(mode) called on the engine directly
PlanSyncFetch == PlanSyncCalled(plugin)

\* TaskNote absent, equal or different on the two sides, RootNote in the vault
SyncStores ==
    {<<l @@ (RootNote :> [content |-> <<1>>, mtime |-> 1]), r>> :
        l \in {NoFiles, (TaskNote :> [content |-> <<1>>, mtime |-> 1])},
        r \in {NoFiles, (TaskNote :> [content |-> <<1>>, mtime |-> 1]),
               (TaskNote :> [content |-> <<2>>, mtime |-> 1])}}

InitSync ==
    /\ \E st \in SyncStores : localStore = st[1] /\ remoteStore = st[2]
    /\ settings = [lastSyncTimestamp |-> 0, conflictStrategy |-> "keep-both",
                   syncCategories |-> <<>>, excludePatterns |-> <<>>]
    /\ isMobile = FALSE
    /\ InitEngine

NextSync ==
    \/ PlanSyncFetch
    \/ ExecuteSyncBegin
    \/ ApplyAction
    \/ ResolveConflictRename
    \/ ResolveConflictTransfer
    \/ ExecuteSyncComplete

SpecSync == InitSync /\ [][NextSync]_vars

-----------------------------------------------------------------------------
(* sync(mode, onProgress): the same runs with a callback that records its events *)

InitProgress ==
    /\ \E st \in SyncStores : localStore = st[1] /\ remoteStore = st[2]
    /\ \E strategy \in {"keep-both", "local-wins"} :
          settings = [lastSyncTimestamp |-> 0, conflictStrategy |-> strategy,
                      syncCategories |-> <<>>, excludePatterns |-> <<>>]
    /\ isMobile = FALSE
    /\ localManifestCache = <<>>
    /\ net = NetIdle
    /\ building = NoBuild
    /\ progress = [given |-> TRUE, events |-> <<>>]
    /\ plugin = PluginIdle
    /\ now = MaxTime + 1
    /\ pc = "idle"
    /\ mode \in Modes
    /\ plan = EmptyPlan
    /\ idx = 0
    /\ result = NewResult(EmptyPlan, 0)
    /\ renamedTo = NoRenames
    /\ runs = 0
    /\ trace = <<>>

SpecProgress == InitProgress /\ [][NextSync]_vars

-----------------------------------------------------------------------------
(* ClawVaultPlugin: syncNow, reconfigureSync and testSyncConnection called in   *)
(* any order.  A call of syncNow is "refused" (it returned null at once),       *)
(* "running" (it awaits syncEngine.sync), "saving" (sync returned a result and  *)
(* it awaits saveSettings), "returned" or "threw"; the run of the engine is     *)
(* taken by its progress events and its outcome.                                *)

setSyncState(pl, status) == [pl EXCEPT !.status = status]

\* syncNow up to its await of syncEngine.sync
CallSyncNow ==
    /\ Len(plugin.calls) < MaxCalls
    /\ plugin' =
           IF ~plugin.configured
           THEN [setSyncState(plugin, "disconnected") EXCEPT !.calls = Append(@, "refused")]
           ELSE IF plugin.status = "syncing"
           THEN [plugin EXCEPT !.calls = Append(@, "refused")]
           ELSE [setSyncState(plugin, "syncing") EXCEPT !.calls = Append(@, "running")]
    /\ UNCHANGED <<settings, isMobile, localStore, remoteStore, localManifestCache, now, pc,
                   mode, plan, idx, result, renamedTo, runs, trace, net, building, progress>>

\* the callback syncNow passes to sync: a progress event of the call's run
CallProgress ==
    /\ \E c \in 1..Len(plugin.calls) : plugin.calls[c] = "running"
    /\ plugin' = setSyncState(plugin, "syncing")
    /\ UNCHANGED <<settings, isMobile, localStore, remoteStore, localManifestCache, now, pc,
                   mode, plan, idx, result, renamedTo, runs, trace, net, building, progress>>

\* syncEngine.sync returns a result: lastSyncTimestamp and lastSyncStats are
\* set, and saveSettings is awaited
CallResult ==
    /\ \E c \in 1..Len(plugin.calls), pulled \in {0, 1} :
          /\ plugin.calls[c] = "running"
          /\ plugin' = [plugin EXCEPT
                            !.calls[c] = "saving",
                            !.lastSyncStats = <<[pulled |-> pulled, pushed |-> 0,
                                                 conflicts |-> 0]>>]
    /\ settings' = [settings EXCEPT !.lastSyncTimestamp = now]
    /\ localManifestCache' = <<>>
    /\ now' = now + 1
    /\ UNCHANGED <<isMobile, localStore, remoteStore, pc, mode, plan, idx, result, renamedTo,
                   runs, trace, net, building, progress>>

\* saveSettings is done: the status goes back to idle and syncNow returns
CallSaved ==
    /\ \E c \in 1..Len(plugin.calls) :
          /\ plugin.calls[c] = "saving"
          /\ plugin' = [setSyncState(plugin, "idle") EXCEPT !.calls[c] = "returned"]
    /\ UNCHANGED <<settings, isMobile, localStore, remoteStore, localManifestCache, now, pc,
                   mode, plan, idx, result, renamedTo, runs, trace, net, building, progress>>

\* the catch block that leaves the status as it is
CallCatch_KeepsStatus ==
    /\ \E c \in 1..Len(plugin.calls) :
          /\ plugin.calls[c] \in {"running", "saving"}
          /\ plugin' = [plugin EXCEPT !.calls[c] = "threw"]
    /\ UNCHANGED <<settings, isMobile, localStore, remoteStore, localManifestCache, now, pc,
                   mode, plan, idx, result, renamedTo, runs, trace, net, building, progress>>

\* syncEngine.sync, or saveSettings after it, throws: the catch block
CallCatch ==
    /\ \E c \in 1..Len(plugin.calls) :
          /\ plugin.calls[c] \in {"running", "saving"}
          /\ plugin' = [setSyncState(plugin, "error") EXCEPT !.calls[c] = "threw"]
    /\ UNCHANGED <<settings, isMobile, localStore, remoteStore, localManifestCache, now, pc,
                   mode, plan, idx, result, renamedTo, runs, trace, net, building, progress>>

\* reconfigureSync after the settings tab saved a sync setting: without a
\* server URL the engine is dropped, with one it is created or updateSettings
\* is called, and the status is set in both cases
reconfigureSync ==
    /\ plugin.reconfigured < MaxUpdates
    /\ \E serverUrl \in BOOLEAN :
          plugin' = [setSyncState(plugin, IF serverUrl THEN "idle" ELSE "disconnected")
                        EXCEPT !.configured = serverUrl, !.reconfigured = @ + 1]
    /\ localManifestCache' = <<>>
    /\ UNCHANGED <<settings, isMobile, localStore, remoteStore, now, pc, mode, plan, idx,
                   result, renamedTo, runs, trace, net, building, progress>>

\* testSyncConnection up to its await of healthCheck: reconfigureSync
TestSyncConnection ==
    /\ plugin.reconfigured < MaxUpdates
    /\ plugin.configured
    /\ plugin' = [setSyncState(plugin, "idle")
                     EXCEPT !.testing = @ + 1, !.reconfigured = @ + 1]
    /\ localManifestCache' = <<>>
    /\ UNCHANGED <<settings, isMobile, localStore, remoteStore, now, pc, mode, plan, idx,
                   result, renamedTo, runs, trace, net, building, progress>>

\* healthCheck answers or throws
TestSyncConnectionEnd ==
    /\ plugin.testing > 0
    /\ \E healthy \in BOOLEAN :
          plugin' = [setSyncState(plugin, IF healthy THEN "idle" ELSE "error")
                        EXCEPT !.testing = @ - 1]
    /\ UNCHANGED <<settings, isMobile, localStore, remoteStore, localManifestCache, now, pc,
                   mode, plan, idx, result, renamedTo, runs, trace, net, building, progress>>

InitPlugin ==
    /\ localStore = NoFiles
    /\ remoteStore = NoFiles
    /\ \E ts \in {0, MaxTime} :
          settings = [lastSyncTimestamp |-> ts, conflictStrategy |-> "newest-wins",
                      syncCategories |-> <<>>, excludePatterns |-> <<>>]
    /\ isMobile = FALSE
    /\ InitEngine

NextPlugin ==
    \/ CallSyncNow
    \/ CallProgress
    \/ CallResult
    \/ CallSaved
    \/ CallCatch
    \/ reconfigureSync
    \/ TestSyncConnection
    \/ TestSyncConnectionEnd

SpecPlugin == InitPlugin /\ [][NextPlugin]_vars

\* the promises syncNow awaits settle: syncEngine.sync returns or throws, and
\* saveSettings resolves or throws
SpecPluginSettles ==
    /\ InitPlugin
    /\ [][NextPlugin]_vars
    /\ WF_vars(CallResult \/ CallCatch)
    /\ WF_vars(CallSaved \/ CallCatch)

-----------------------------------------------------------------------------
(* syncNow around the runs of the engine: one call at a time, each run of      *)
(* sync(mode) is the run of the call that is "running".                        *)

\* syncNow: it returns null when a sync is marked as running; otherwise it
\* marks one and calls syncEngine.sync, which plans
SyncNow ==
    /\ Len(plugin.calls) < MaxCalls
    /\ plugin.configured
    /\ IF plugin.status = "syncing"
       THEN /\ plugin' = [plugin EXCEPT !.calls = Append(@, "refused")]
            /\ UNCHANGED <<settings, isMobile, localStore, remoteStore, localManifestCache,
                           now, pc, mode, plan, idx, result, renamedTo, runs, trace, net,
                           building, progress>>
       ELSE PlanSyncCalled([setSyncState(plugin, "syncing")
                               EXCEPT !.calls = Append(@, "running")])

\* the catch block that records the time of the failed sync
SyncNowCatch_StampsFailure ==
    /\ pc = "failed"
    /\ \E c \in 1..Len(plugin.calls) :
          /\ plugin.calls[c] = "running"
          /\ plugin' = [setSyncState(plugin, "error") EXCEPT !.calls[c] = "threw"]
    /\ settings' = [settings EXCEPT !.lastSyncTimestamp = now]
    /\ pc' = "idle"
    /\ UNCHANGED <<isMobile, localStore, remoteStore, localManifestCache, now, mode,
                   plan, idx, result, renamedTo, runs, trace, net, building, progress>>

\* syncEngine.sync threw: the catch block of syncNow
SyncNowCatch ==
    /\ pc = "failed"
    /\ \E c \in 1..Len(plugin.calls) :
          /\ plugin.calls[c] = "running"
          /\ plugin' = [setSyncState(plugin, "error") EXCEPT !.calls[c] = "threw"]
    /\ pc' = "idle"
    /\ UNCHANGED <<settings, isMobile, localStore, remoteStore, localManifestCache, now, mode,
                   plan, idx, result, renamedTo, runs, trace, net, building, progress>>

\* syncEngine.sync returned its result: lastSyncTimestamp and lastSyncStats are
\* set in the settings the engine shares, saved, and the status goes to idle
SyncNowResult ==
    /\ pc = "done"
    /\ \E c \in 1..Len(plugin.calls) :
          /\ plugin.calls[c] = "running"
          /\ plugin' = [setSyncState(plugin, "idle") EXCEPT
                            !.calls[c] = "returned",
                            !.lastSyncStats = <<[pulled |-> result.pulled,
                                                 pushed |-> result.pushed,
                                                 conflicts |-> result.conflicts]>>]
    /\ settings' = [settings EXCEPT !.lastSyncTimestamp = result.endedAt]
    /\ pc' = "idle"
    /\ UNCHANGED <<isMobile, localStore, remoteStore, localManifestCache, now, mode, plan,
                   idx, result, renamedTo, runs, trace, net, building, progress>>

\* TaskNote on both sides with different contents, modified after the last
\* sync on both sides (the local, the remote or neither being the newer one),
\* RootNote in the vault only
InitSyncNow ==
    /\ \E times \in {<<3, 2>>, <<2, 3>>, <<2, 2>>} :
          /\ localStore = (RootNote :> [content |-> <<1>>, mtime |-> 1])
                          @@ (TaskNote :> [content |-> <<1>>, mtime |-> times[1]])
          /\ remoteStore = (TaskNote :> [content |-> <<2>>, mtime |-> times[2]])
    /\ \E ts \in {0, 1}, strategy \in {"remote-wins", "keep-both"} :
          settings = [lastSyncTimestamp |-> ts, conflictStrategy |-> strategy,
                      syncCategories |-> <<>>, excludePatterns |-> <<>>]
    /\ isMobile = FALSE
    /\ InitEngine

NextSyncNow ==
    \/ SyncNow
    \/ ExecuteSyncBegin
    \/ ApplyAction
    \/ ResolveConflictRename
    \/ ResolveConflictTransfer
    \/ ExecuteSyncComplete
    \/ SyncNowResult
    \/ SyncNowCatch

SpecSyncNow == InitSyncNow /\ [][NextSyncNow]_vars

-----------------------------------------------------------------------------
(* Calls of SyncClient against a server that answers any status *)

ClientStatuses == {200, 201, 301, 404, 405, 409, 500}

\* a root-level file, a file in a folder, a file two folders deep with a blank
ClientPaths ==
    {RootNote, TaskNote, <<"t", "/", "s", "/", "a", " ", "m">>}

\* deleteFile, putFileBinary or getFileBinary is called
ClientCall ==
    /\ net.outcome # "running"
    /\ \E op \in {"deleteFile", "putFileBinary", "getFileBinary"}, path \in ClientPaths :
          net' = [op |-> op, path |-> path, step |-> 1, sent |-> <<>>,
                  outcome |-> "running", error |-> <<>>, body |-> <<>>]
    /\ UNCHANGED <<plugin, progress, settings, isMobile, localStore, remoteStore, localManifestCache, now,
                   pc, mode, plan, idx, result, renamedTo, runs, trace, building>>

\* SyncClient.request for the next request of the call: the server answers,
\* and the call throws, goes on to its next request or returns
ClientRequest ==
    /\ net.outcome = "running"
    /\ LET requests == RequestsOf(net.op, net.path)
           request == requests[net.step]
       IN  \E status \in ClientStatuses :
             LET failed == requestFails(status, request.allowStatuses)
                 served == status \in {200, 201, 204}
             IN  /\ net' = [net EXCEPT
                               !.sent = Append(@, [method |-> request.method,
                                                   path |-> request.path,
                                                   status |-> status]),
                               !.step = IF failed \/ net.step = Len(requests)
                                        THEN @ ELSE @ + 1,
                               !.outcome = IF failed THEN "error"
                                           ELSE IF net.step = Len(requests) THEN "ok"
                                           ELSE "running",
                               !.error = IF failed
                                         THEN requestError(request.method, request.path,
                                                           status)
                                         ELSE <<>>]
                 /\ remoteStore' =
                        IF served /\ request.method = "PUT"
                        THEN WriteFile(remoteStore, normalizePath(net.path), <<1>>, now)
                        ELSE IF served /\ request.method = "DELETE"
                        THEN RemoveFile(remoteStore, normalizePath(net.path))
                        ELSE remoteStore
    /\ UNCHANGED <<plugin, progress, settings, isMobile, localStore, localManifestCache, now, pc, mode,
                   plan, idx, result, renamedTo, runs, trace, building>>

InitClient ==
    /\ localStore = NoFiles
    /\ \E held \in SUBSET {RootNote, TaskNote} :
          remoteStore = [p \in held |-> [content |-> <<2>>, mtime |-> 1]]
    /\ settings = [lastSyncTimestamp |-> 0, conflictStrategy |-> "newest-wins",
                   syncCategories |-> <<>>, excludePatterns |-> <<>>]
    /\ isMobile = FALSE
    /\ InitEngine

NextClient == ClientCall \/ ClientRequest

SpecClient == InitClient /\ [][NextClient]_vars

-----------------------------------------------------------------------------
(* executeSync(plan, options) called with any plan and any mode *)

ExecPaths == {RootNote, TaskNote, DecisionNote}

PlanLists == {"toPull", "toPush", "conflicts", "toDelete"}

\* a SyncFileAction of a plan made by the caller
HandedAction(path, direction) ==
    [path |-> path, direction |-> direction, reason |-> <<>>]

\* a SyncConflict of a plan made by the caller
HandedConflict(path, localTime, remoteTime) ==
    [path |-> path, localModified |-> localTime,
     remoteModified |-> toISOString(remoteTime), localSize |-> 1, remoteSize |-> 1]

\* the plan that puts each path in the list the assignment names, if any
HandedPlan(assign) ==
    LET ordered == SortPaths(ExecPaths)
        inList(list) == LET here(p) == assign[p] = list IN SelectSeq(ordered, here)
        actions(list, direction) ==
            [k \in 1..Len(inList(list)) |-> HandedAction(inList(list)[k], direction)]
    IN  [toPull |-> actions("toPull", "pull"),
         toPush |-> actions("toPush", "push"),
         conflicts |-> [k \in 1..Len(inList("conflicts")) |->
                           HandedConflict(inList("conflicts")[k], 1, k)],
         toDelete |-> actions("toDelete", "delete"),
         unchanged |-> <<>>]

HandedPlans == {HandedPlan(assign) : assign \in [ExecPaths -> PlanLists \cup {"none"}]}

\* the two stores: every path on both sides with different content, or
\* RootNote missing on the server and DecisionNote missing in the vault
ExecStores ==
    {<<[p \in ExecPaths |-> [content |-> <<1>>, mtime |-> 1]],
       [p \in ExecPaths |-> [content |-> <<2>>, mtime |-> 1]]>>,
     <<[p \in {RootNote, TaskNote} |-> [content |-> <<1>>, mtime |-> 1]],
       [p \in {TaskNote, DecisionNote} |-> [content |-> <<2>>, mtime |-> 1]]>>}

ExecStrategies == {"local-wins", "newest-wins", "keep-both"}

InitExec ==
    /\ \E st \in ExecStores : localStore = st[1] /\ remoteStore = st[2]
    /\ \E strategy \in ExecStrategies :
          settings = [lastSyncTimestamp |-> 0, conflictStrategy |-> strategy,
                      syncCategories |-> <<>>, excludePatterns |-> <<>>]
    /\ isMobile = FALSE
    /\ localManifestCache = <<>>
    /\ net = NetIdle
    /\ building = NoBuild
    /\ progress = NoProgress
    /\ plugin = PluginIdle
    /\ now = MaxTime + 1
    /\ pc = "planned"
    /\ mode \in Modes
    /\ plan \in HandedPlans
    /\ idx = 0
    /\ result = NewResult(EmptyPlan, 0)
    /\ renamedTo = NoRenames
    /\ runs = 0
    /\ trace = <<>>

NextExec ==
    \/ ExecuteSyncBegin
    \/ ApplyAction
    \/ ResolveConflictRename
    \/ ResolveConflictTransfer
    \/ ExecuteSyncComplete

SpecExec == InitExec /\ [][NextExec]_vars

-----------------------------------------------------------------------------
(* The resolver on any conflict and any strategy value, inside a run *)

\* the strategy values settings may carry: the five known ones and another
StrategyValues == Strategies \cup {"unknown"}

\* remoteModified as the manifest gave it: a date, or a string that is none
RemoteDates == {NaNDate} \cup {toISOString(t) : t \in 0..MaxTime}

\* a plan with one pull of RootNote and one conflict on TaskNote
InitResolve ==
    /\ localStore = [p \in {TaskNote} |-> [content |-> <<1>>, mtime |-> 1]]
    /\ remoteStore = [p \in {RootNote, TaskNote} |-> [content |-> <<2>>, mtime |-> 1]]
    /\ \E strategy \in StrategyValues :
          settings = [lastSyncTimestamp |-> 0, conflictStrategy |-> strategy,
                      syncCategories |-> <<>>, excludePatterns |-> <<>>]
    /\ isMobile \in BOOLEAN
    /\ localManifestCache = <<>>
    /\ net = NetIdle
    /\ building = NoBuild
    /\ progress = NoProgress
    /\ plugin = PluginIdle
    /\ now = MaxTime + 1
    /\ pc = "planned"
    /\ mode = "full"
    /\ \E localTime \in 0..MaxTime, remoteDate \in RemoteDates :
          plan = [EmptyPlan EXCEPT
                     !.toPull = <<HandedAction(RootNote, "pull")>>,
                     !.conflicts = <<[HandedConflict(TaskNote, localTime, 0) EXCEPT
                                         !.remoteModified = remoteDate]>>]
    /\ idx = 0
    /\ result = NewResult(EmptyPlan, 0)
    /\ renamedTo = NoRenames
    /\ runs = 0
    /\ trace = <<>>

SpecResolve == InitResolve /\ [][NextExec]_vars

-----------------------------------------------------------------------------
(* planSync and updateSettings called while executeSync runs.  A scan and   *)
(* the cache carry the number of invalidations that had returned when the   *)
(* scan began.                                                              *)

\* the updateSettings calls and executeSync runs that have returned
Invalidations ==
    building.updates + (IF pc = "done" THEN runs ELSE IF runs > 0 THEN runs - 1 ELSE 0)

\* what planSync returns from a local manifest
PlanReturned(startTag, manifestTag, manifest) ==
    <<[startTag |-> startTag, manifestTag |-> manifestTag,
       plan |-> diffManifests(settings, manifest, fetchManifest(remoteStore, now), mode)]>>

\* planSync enters buildLocalManifest: the cache answers at once, or the scan
\* of the vault begins
BuildLocalManifestBegin ==
    /\ building.scan = <<>>
    /\ building' =
           IF CacheAnswers(localManifestCache, now)
           THEN [building EXCEPT
                    !.returned = PlanReturned(Invalidations, building.cachedTag,
                                              localManifestCache[1].manifest)]
           ELSE [building EXCEPT
                    !.scan = <<[manifest |-> scanLocalManifest(settings, localStore, now),
                                tag |-> Invalidations]>>]
    /\ UNCHANGED <<plugin, progress, settings, isMobile, localStore, remoteStore, localManifestCache, now,
                   pc, mode, plan, idx, result, renamedTo, runs, trace, net>>

\* the scan ends: buildLocalManifest stores the manifest in the cache and
\* planSync returns the plan made from it
BuildLocalManifestEnd ==
    /\ building.scan # <<>>
    /\ localManifestCache' = <<[expiresAt |-> now + localManifestCacheTtlMs,
                                manifest |-> building.scan[1].manifest]>>
    /\ building' = [building EXCEPT
                       !.scan = <<>>,
                       !.cachedTag = building.scan[1].tag,
                       !.returned = PlanReturned(building.scan[1].tag,
                                                 building.scan[1].tag,
                                                 building.scan[1].manifest)]
    /\ UNCHANGED <<plugin, progress, settings, isMobile, localStore, remoteStore, now, pc, mode, plan, idx,
                   result, renamedTo, runs, trace, net>>

updateSettings ==
    /\ building.updates < MaxUpdates
    /\ \E cats \in CategoryChoices : settings' = [settings EXCEPT !.syncCategories = cats]
    /\ localManifestCache' = <<>>
    /\ building' = [building EXCEPT !.updates = @ + 1]
    /\ UNCHANGED <<plugin, progress, isMobile, localStore, remoteStore, now, pc, mode, plan, idx, result,
                   renamedTo, runs, trace, net>>

\* a full-mode keep-both run on a plan with a pull and a conflict
InitCache ==
    /\ localStore = [p \in {RootNote, TaskNote} |-> [content |-> <<1>>, mtime |-> 1]]
    /\ remoteStore = [p \in {RootNote, TaskNote} |-> [content |-> <<2>>, mtime |-> 1]]
    /\ \E cats \in CategoryChoices :
          settings = [lastSyncTimestamp |-> 0, conflictStrategy |-> "keep-both",
                      syncCategories |-> cats, excludePatterns |-> <<>>]
    /\ isMobile = FALSE
    /\ localManifestCache = <<>>
    /\ net = NetIdle
    /\ building = NoBuild
    /\ progress = NoProgress
    /\ plugin = PluginIdle
    /\ now = MaxTime + 1
    /\ pc = "planned"
    /\ mode = "full"
    /\ plan = [EmptyPlan EXCEPT !.toPull = <<HandedAction(RootNote, "pull")>>,
                                !.conflicts = <<HandedConflict(TaskNote, 1, 1)>>]
    /\ idx = 0
    /\ result = NewResult(EmptyPlan, 0)
    /\ renamedTo = NoRenames
    /\ runs = 0
    /\ trace = <<>>

NextCache ==
    \/ NextExec
    \/ BuildLocalManifestBegin
    \/ BuildLocalManifestEnd
    \/ updateSettings

SpecCache == InitCache /\ [][NextCache]_vars

-----------------------------------------------------------------------------
(* Vocabulary of the properties *)

PathsIn(list) == {list[k].path : k \in 1..Len(list)}

UnchangedSet(pl) == {pl.unchanged[k] : k \in 1..Len(pl.unchanged)}

ActionPaths(pl) ==
    PathsIn(pl.toPull) \cup PathsIn(pl.toPush) \cup PathsIn(pl.conflicts)
        \cup PathsIn(pl.toDelete)

CountIn(list, p) == Cardinality({k \in 1..Len(list) : list[k].path = p})

\* the number of times the path is listed in the five lists of the plan
Occurrences(pl, p) ==
    CountIn(pl.toPull, p) + CountIn(pl.toPush, p) + CountIn(pl.conflicts, p)
        + CountIn(pl.toDelete, p)
        + Cardinality({k \in 1..Len(pl.unchanged) : pl.unchanged[k] = p})

EntryOf(list, p) == list[CHOOSE k \in 1..Len(list) : list[k].path = p]

\* planSync has just returned: the plan describes the two stores as they are
JustPlanned == pc = "planned" /\ localManifestCache # <<>>

\* the manifests the plan was computed from
PlannedLocalFiles == localManifestCache[1].manifest.files
PlannedRemoteFiles == fetchManifest(remoteStore, now).files

ManifestPaths == PathsIn(PlannedLocalFiles) \cup PathsIn(PlannedRemoteFiles)

\* the filter keeps the record the manifest has for the path
KeptIn(files, p) ==
    \E k \in 1..Len(files) :
        files[k].path = p /\ shouldSyncPath(settings, files[k].path, files[k].category)

KeptLocal(p) == KeptIn(PlannedLocalFiles, p)
KeptRemote(p) == KeptIn(PlannedRemoteFiles, p)

\* kept on both sides with different content
Differs(p) ==
    /\ KeptLocal(p) /\ KeptRemote(p)
    /\ p \in DOMAIN localStore /\ p \in DOMAIN remoteStore
    /\ localStore[p].content # remoteStore[p].content

\* The glob dialect of the exclusion patterns, read off the pattern itself:
\* "**" any characters, "*" any characters but "/", "?" one character,
\* anything else itself.
RECURSIVE GlobMatchesFrom(_, _, _, _)
GlobMatchesFrom(glob, s, i, j) ==
    IF i > Len(glob) THEN j > Len(s)
    ELSE IF glob[i] = "*" /\ i < Len(glob) /\ glob[i + 1] = "*"
    THEN \E k \in j..(Len(s) + 1) : GlobMatchesFrom(glob, s, i + 2, k)
    ELSE IF glob[i] = "*"
    THEN \E k \in j..(Len(s) + 1) :
            /\ \A n \in j..(k - 1) : s[n] # "/"
            /\ GlobMatchesFrom(glob, s, i + 1, k)
    ELSE /\ j <= Len(s)
         /\ glob[i] = "?" \/ glob[i] = s[j]
         /\ GlobMatchesFrom(glob, s, i + 1, j + 1)

\* the path matches one of the configured exclusion globs
GlobExcluded(p) ==
    \E n \in 1..Len(settings.excludePatterns) :
        /\ Trim(settings.excludePatterns[n]) # <<>>
        /\ GlobMatchesFrom(Trim(settings.excludePatterns[n]), p, 1, 1)

\* the directory segments of a path: none for a root-level file
HasDirectory(p) == \E i \in 1..Len(p) : p[i] = "/"

InAllowList(category) ==
    \E n \in 1..Len(settings.syncCategories) : settings.syncCategories[n] = category

StorePaths == DOMAIN localStore \cup DOMAIN remoteStore

-----------------------------------------------------------------------------
(* Properties of the plan (SpecPlan) *)

\* C1 as stated: every path present in the local or the remote manifest is
\* listed exactly once in toPull, toPush, conflicts, toDelete and unchanged.
C1_PartitionAsStated ==
    JustPlanned => \A p \in ManifestPaths : Occurrences(plan, p) = 1

\* C1, amended: every path present in either manifest is listed at most once in
\* the five lists; it is listed exactly once when the filter keeps it on both
\* sides, or keeps it on the remote side only and the mode is not push, or keeps
\* it on the local side only and the mode is not pull; otherwise it is not listed.
C1_Partition ==
    JustPlanned =>
        \A p \in ManifestPaths :
            LET listed == \/ KeptLocal(p) /\ KeptRemote(p)
                          \/ KeptRemote(p) /\ ~KeptLocal(p) /\ mode # "push"
                          \/ KeptLocal(p) /\ ~KeptRemote(p) /\ mode # "pull"
            IN  Occurrences(plan, p) = (IF listed THEN 1 ELSE 0)

\* C1 witness: a full-mode plan that lists two paths in two different lists
C1_Witness ==
    /\ JustPlanned
    /\ mode = "full"
    /\ plan.conflicts # <<>>
    /\ plan.toPull # <<>>

\* C3: a path that matches a configured exclusion glob is in none of toPull,
\* toPush, conflicts and toDelete.
C3_Exclusion ==
    JustPlanned => \A p \in ActionPaths(plan) : ~GlobExcluded(p)

\* C3 witness: a plan made while a file that differs between the two sides
\* matches an exclusion glob
C3_Witness ==
    /\ JustPlanned
    /\ \E p \in DOMAIN localStore \cap DOMAIN remoteStore :
          /\ GlobExcluded(p)
          /\ localStore[p].content # remoteStore[p].content

\* C4 as stated: with a category allow-list (and no exclusion pattern), a file
\* under a directory outside the list is in no list of the full-mode plan, a
\* file under a directory of the list is in the plan, and a root-level file is
\* always in the plan.
C4_CategoryFilterAsStated ==
    (JustPlanned /\ mode = "full" /\ settings.excludePatterns = <<>>
        /\ settings.syncCategories # <<>>) =>
        \A p \in StorePaths :
            IF ~HasDirectory(p) THEN Occurrences(plan, p) = 1
            ELSE IF InAllowList(FirstSegment(p)) THEN Occurrences(plan, p) = 1
            ELSE Occurrences(plan, p) = 0

\* C5: in full mode a path kept on both sides with different checksums and
\* equal modification times is a conflict, and newest-wins resolves a conflict
\* with equal times to a push.
C5_TieBreak ==
    (JustPlanned /\ mode = "full") =>
        /\ \A p \in StorePaths :
              (Differs(p) /\ localStore[p].mtime = remoteStore[p].mtime) =>
                  /\ CountIn(plan.conflicts, p) = 1
                  /\ p \notin PathsIn(plan.toPull) \cup PathsIn(plan.toPush)
        /\ \A k \in 1..Len(plan.conflicts) :
              toEpoch(plan.conflicts[k].remoteModified) = plan.conflicts[k].localModified =>
                  \A mobile \in BOOLEAN :
                      resolve(mobile, plan.conflicts[k], "newest-wins").action.direction
                          = "push"

\* C5 witness: a full-mode plan holding a conflict with equal times
C5_Witness ==
    /\ JustPlanned
    /\ mode = "full"
    /\ \E p \in StorePaths :
          /\ Differs(p)
          /\ localStore[p].mtime = remoteStore[p].mtime
          /\ p \in PathsIn(plan.conflicts)

\* C7: with lastSyncTimestamp = 0, in full mode, a path kept on both sides with
\* different checksums goes to toPull with reason "remote newer" when the remote
\* time is strictly greater, to toPush with reason "local newer" when the local
\* time is strictly greater, and is no conflict in either case.
C7_NoGateAtZero ==
    (JustPlanned /\ mode = "full" /\ settings.lastSyncTimestamp = 0) =>
        \A p \in StorePaths :
            /\ (Differs(p) /\ remoteStore[p].mtime > localStore[p].mtime) =>
                  /\ CountIn(plan.toPull, p) = 1
                  /\ EntryOf(plan.toPull, p).reason = "remote newer"
                  /\ p \notin PathsIn(plan.conflicts)
            /\ (Differs(p) /\ localStore[p].mtime > remoteStore[p].mtime) =>
                  /\ CountIn(plan.toPush, p) = 1
                  /\ EntryOf(plan.toPush, p).reason = "local newer"
                  /\ p \notin PathsIn(plan.conflicts)

\* C7 witness: lastSyncTimestamp = 0 and a differing path whose remote copy is newer
C7_Witness ==
    /\ JustPlanned
    /\ mode = "full"
    /\ settings.lastSyncTimestamp = 0
    /\ \E p \in StorePaths : Differs(p) /\ remoteStore[p].mtime > localStore[p].mtime

\* C8: in full mode, with lastSyncTimestamp > 0, a path kept on both sides with
\* different checksums whose two modification times are both greater than
\* lastSyncTimestamp has exactly one entry in conflicts and none in toPull and toPush.
C8_BothModifiedIsConflict ==
    (JustPlanned /\ mode = "full" /\ settings.lastSyncTimestamp > 0) =>
        \A p \in StorePaths :
            (/\ Differs(p)
             /\ localStore[p].mtime > settings.lastSyncTimestamp
             /\ remoteStore[p].mtime > settings.lastSyncTimestamp) =>
                /\ CountIn(plan.conflicts, p) = 1
                /\ p \notin PathsIn(plan.toPull) \cup PathsIn(plan.toPush)

\* C8 witness: both copies modified after the last sync, the remote one later
C8_Witness ==
    /\ JustPlanned
    /\ mode = "full"
    /\ \E p \in StorePaths :
          /\ Differs(p)
          /\ settings.lastSyncTimestamp > 0
          /\ localStore[p].mtime > settings.lastSyncTimestamp
          /\ remoteStore[p].mtime > localStore[p].mtime

\* C9: a pull-mode or push-mode plan has no conflicts; a pull-mode plan has an
\* empty toPush and a push-mode plan an empty toPull.
C9_DirectionalModes ==
    JustPlanned =>
        /\ mode # "full" => plan.conflicts = <<>>
        /\ mode = "pull" => plan.toPush = <<>>
        /\ mode = "push" => plan.toPull = <<>>

\* C9 witness: a pull-mode plan over a path that would be a conflict in full
\* mode, beside a file that exists locally only
C9_Witness ==
    /\ JustPlanned
    /\ mode = "pull"
    /\ \E p \in StorePaths :
          /\ Differs(p)
          /\ settings.lastSyncTimestamp > 0
          /\ localStore[p].mtime > settings.lastSyncTimestamp
          /\ remoteStore[p].mtime > settings.lastSyncTimestamp
    /\ \E q \in DOMAIN localStore \ DOMAIN remoteStore : KeptLocal(q)

\* C23: in a pull-mode plan every path kept on both sides with different
\* checksums is in toPull once and in no other list, with the reason "remote
\* newer" when the remote time is strictly greater and "checksum mismatch"
\* otherwise, the local copy being strictly newer included; in a push-mode
\* plan it is in toPush, with "local newer" or "checksum mismatch".
C23_ModeSensitiveFallback ==
    JustPlanned =>
        \A p \in StorePaths :
            Differs(p) =>
                /\ mode = "pull" =>
                      /\ CountIn(plan.toPull, p) = 1
                      /\ Occurrences(plan, p) = 1
                      /\ EntryOf(plan.toPull, p).reason =
                             IF remoteStore[p].mtime > localStore[p].mtime
                             THEN "remote newer" ELSE "checksum mismatch"
                /\ mode = "push" =>
                      /\ CountIn(plan.toPush, p) = 1
                      /\ Occurrences(plan, p) = 1
                      /\ EntryOf(plan.toPush, p).reason =
                             IF localStore[p].mtime > remoteStore[p].mtime
                             THEN "local newer" ELSE "checksum mismatch"

\* C23 witness: a pull-mode plan that pulls over a strictly newer local copy
C23_Witness ==
    /\ JustPlanned
    /\ mode = "pull"
    /\ \E p \in StorePaths :
          /\ Differs(p)
          /\ localStore[p].mtime > remoteStore[p].mtime
          /\ p \in PathsIn(plan.toPull)
          /\ EntryOf(plan.toPull, p).reason = "checksum mismatch"

-----------------------------------------------------------------------------
(* Properties of the run (Spec) *)

\* executeSync has started and the plan, result and trace are those of this run
InRun == pc \in {"pulling", "pushing", "conflicts", "transfer", "deleting",
                 "completing", "done"}

\* planSync("full") has returned after a sync("full") that recorded no error
AfterCleanFullRun ==
    /\ JustPlanned
    /\ runs >= 1
    /\ mode = "full"
    /\ result.errors = <<>>

\* the paths of either store that the filter keeps
SyncedPaths == {p \in StorePaths : KeptLocal(p) \/ KeptRemote(p)}

\* the conflict copies made by the run
ConflictCopies == {renamedTo[p].to : p \in DOMAIN renamedTo}

IsDigit(ch) == ch \in {"0", "1", "2", "3", "4", "5", "6", "7", "8", "9"}

\* YYYY-MM-DD
DateShaped(d) ==
    /\ Len(d) = 10
    /\ \A i \in 1..10 : IF i \in {5, 8} THEN d[i] = "-" ELSE IsDigit(d[i])

\* nothing, or "-" and a number
SuffixShaped(x) ==
    \/ x = <<>>
    \/ /\ Len(x) >= 2
       /\ x[1] = "-"
       /\ \A i \in 2..Len(x) : IsDigit(x[i])

\* path splits after position i into a stem (with its folder) and the extension
\* of the file name: from its last dot, unless that dot starts the name
ExtensionSplit(path, i) ==
    LET ext == SubSeq(path, i + 1, Len(path))
        nameStartsAt(k) == k = 1 \/ path[k - 1] = "/"
    IN  /\ i >= 1
        /\ path[i] # "/"
        /\ \A k \in (i + 1)..Len(path) : path[k] # "/"
        /\ IF ext = <<>>
           THEN \A k \in 1..Len(path) :
                    (path[k] = "." /\ \A n \in k..Len(path) : path[n] # "/")
                        => nameStartsAt(k)
           ELSE /\ ext[1] = "."
                /\ ~nameStartsAt(i + 1)
                /\ \A k \in 2..Len(ext) : ext[k] # "."

\* copy is <stem>.conflict-<date>(-<n>)?<ext> beside path
ConflictCopyShaped(copy, path) ==
    \E i \in 1..Len(path) :
        /\ ExtensionSplit(path, i)
        /\ LET stem == SubSeq(path, 1, i)
               ext == SubSeq(path, i + 1, Len(path))
               middle == Len(copy) - Len(stem) - Len(ConflictWord) - Len(ext)
           IN  /\ middle >= 10
               /\ SubSeq(copy, 1, Len(stem) + Len(ConflictWord)) = stem \o ConflictWord
               /\ SubSeq(copy, Len(copy) - Len(ext) + 1, Len(copy)) = ext
               /\ DateShaped(SubSeq(copy, Len(stem) + Len(ConflictWord) + 1,
                                    Len(stem) + Len(ConflictWord) + 10))
               /\ SuffixShaped(SubSeq(copy, Len(stem) + Len(ConflictWord) + 11,
                                      Len(copy) - Len(ext)))

\* the pull of the path has succeeded in this run
Pulled(p) == \E i \in 1..Len(trace) : trace[i].op = "pull" /\ trace[i].path = p /\ trace[i].ok

\* C6: under keep-both the pull of a conflicting path comes after the rename of
\* the local file to <stem>.conflict-<date>(-<n>)?<ext>; from the rename on the
\* copy holds the local content the file had, the path is vacant until the pull,
\* and after the pull the path holds the remote content.
C6_ConflictPreservation ==
    InRun =>
        /\ \A i \in 1..Len(trace) :
              (/\ settings.conflictStrategy = "keep-both"
               /\ trace[i].op = "pull"
               /\ trace[i].path \in PathsIn(plan.conflicts)) =>
                  \E j \in 1..(i - 1) :
                      /\ trace[j].op = "rename"
                      /\ trace[j].path = trace[i].path
                      /\ trace[j].ok
        /\ \A p \in DOMAIN renamedTo :
              /\ ConflictCopyShaped(renamedTo[p].to, p)
              /\ renamedTo[p].to \in DOMAIN localStore
              /\ localStore[renamedTo[p].to].content = renamedTo[p].content
              /\ IF Pulled(p)
                 THEN /\ p \in DOMAIN localStore
                      /\ p \in DOMAIN remoteStore
                      /\ localStore[p].content = remoteStore[p].content
                 ELSE p \notin DOMAIN localStore

\* C6 witness: a run that resolved a keep-both conflict with a rename and a pull
C6_Witness ==
    /\ pc = "done"
    /\ settings.conflictStrategy = "keep-both"
    /\ \E p \in DOMAIN renamedTo : Pulled(p) /\ renamedTo[p].content # localStore[p].content

\* the attempts that ended an action: every entry but a successful rename
IsOutcome(e) == ~(e.op = "rename" /\ e.ok)
Outcomes == SelectSeq(trace, IsOutcome)

IsFailure(e) == ~e.ok
Failures == SelectSeq(trace, IsFailure)

\* the paths executeSync has to attempt, in order
ExpectedAttempts ==
    LET paths(list) == [k \in 1..Len(list) |-> list[k].path]
    IN  (IF mode # "push" THEN paths(plan.toPull) ELSE <<>>)
        \o (IF mode # "pull" THEN paths(plan.toPush) ELSE <<>>)
        \o (IF mode = "full" THEN paths(plan.conflicts) \o paths(plan.toDelete) ELSE <<>>)

\* C10: every action that ended added one to a counter or one error entry with
\* its path, never both; executeSync ends having attempted every action of the
\* enabled stages, whatever failed; for a full-mode run
\* pulled + pushed + conflicts + deleted + |errors| is the number of planned actions.
C10_PartialFailureIsolation ==
    InRun =>
        /\ result.pulled + result.pushed + result.conflicts + result.deleted
              + Len(result.errors) = Len(Outcomes)
        /\ Len(result.errors) = Len(Failures)
        /\ \A k \in 1..Len(result.errors) : result.errors[k].path = Failures[k].path
        /\ pc = "done" =>
              [k \in 1..Len(Outcomes) |-> Outcomes[k].path] = ExpectedAttempts
        /\ (pc = "done" /\ mode = "full") =>
              result.pulled + result.pushed + result.conflicts + result.deleted
                  + Len(result.errors)
              = Len(plan.toPull) + Len(plan.toPush) + Len(plan.conflicts)
                  + Len(plan.toDelete)

\* C10 witness: a finished full-mode run whose first action failed and whose
\* last action succeeded
C10_Witness ==
    /\ pc = "done"
    /\ mode = "full"
    /\ Len(trace) >= 2
    /\ ~trace[1].ok
    /\ trace[Len(trace)].ok

-----------------------------------------------------------------------------
(* Properties of the runs over the internal directories (SpecReserved) *)

\* the path, however it is written, is .obsidian or .clawvault or lies under one
Reserved(p) ==
    LET written == StripLeadingSlashes(p)
    IN  \E d \in {DotObsidian, DotClawvault} :
            written = d \/ StartsWith(written, d \o <<"/">>)

-----------------------------------------------------------------------------
(* Properties of the conflict-copy name (SpecCopies) *)

\* t/a.conflict-1970-01-01.m, and with -n before the extension for n > 0
CopyOfTaskNote(n) ==
    <<"t", "/", "a", ".", "c", "o", "n", "f", "l", "i", "c", "t", "-",
      "1", "9", "7", "0", "-", "0", "1", "-", "0", "1">>
    \o (IF n = 0 THEN <<>> ELSE <<"-">> \o DecimalString(n))
    \o <<".", "m">>

\* C26: the step that renames TaskNote to its conflict copy gives the copy
\* the first of the names t/a.conflict-<date>.m, t/a.conflict-<date>-1.m,
\* -2, ... that no file of the vault has, moves the file there, and leaves
\* every other file of the vault as it was.
C26_ConflictCopyName ==
    [][(TaskNote \in DOMAIN renamedTo' /\ TaskNote \notin DOMAIN renamedTo) =>
          LET target == renamedTo'[TaskNote].to
          IN  /\ target \notin DOMAIN localStore
              /\ \E n \in 0..(MaxCopies + 1) :
                    /\ target = CopyOfTaskNote(n)
                    /\ \A k \in 0..(n - 1) : CopyOfTaskNote(k) \in DOMAIN localStore
              /\ DOMAIN localStore' = (DOMAIN localStore \ {TaskNote}) \cup {target}
              /\ localStore'[target] = localStore[TaskNote]
              /\ \A q \in DOMAIN localStore \ {TaskNote} : localStore'[q] = localStore[q]
       ]_vars

\* C26 witness: the vault held the copies without suffix and with -1, and the
\* new copy was given the suffix -2
C26_Witness ==
    /\ TaskNote \in DOMAIN renamedTo
    /\ renamedTo[TaskNote].to = CopyOfTaskNote(2)
    /\ CopyOfTaskNote(0) \in DOMAIN localStore
    /\ CopyOfTaskNote(1) \in DOMAIN localStore

-----------------------------------------------------------------------------
(* Properties of executeSync on any plan (SpecExec) *)

\* the stage of each expected attempt, parallel to ExpectedAttempts
ExpectedStages ==
    LET stages(list, stage) == [k \in 1..Len(list) |-> stage]
    IN  (IF mode # "push" THEN stages(plan.toPull, "pulling") ELSE <<>>)
        \o (IF mode # "pull" THEN stages(plan.toPush, "pushing") ELSE <<>>)
        \o (IF mode = "full"
            THEN stages(plan.conflicts, "conflicts") \o stages(plan.toDelete, "deleting")
            ELSE <<>>)

\* the file operation is one the stage performs
OpOfStage(op, stage) ==
    CASE stage = "pulling" -> op = "pull"
      [] stage = "pushing" -> op = "push"
      [] stage = "conflicts" -> op \in {"pull", "push", "rename"}
      [] OTHER -> op = "delete"

\* the number of attempts that precede action i of the stage
AttemptsBefore(stage, i) ==
    LET first == CHOOSE k \in 1..Len(ExpectedStages) :
                     /\ ExpectedStages[k] = stage
                     /\ \A j \in 1..(k - 1) : ExpectedStages[j] # stage
    IN  (first - 1) + (i - 1)

\* C11: the attempts of a run are, in order, the toPull actions, the toPush
\* actions, the conflicts and the toDelete actions of the enabled stages, each
\* list in plan order and each attempt with an operation of its stage; the
\* action under way is the one after the attempts that ended, and a rename of
\* a conflict is followed at once by the transfer of the same conflict, so one
\* action at a time is in progress.
C11_StageOrdering ==
    InRun =>
        /\ Len(Outcomes) <= Len(ExpectedAttempts)
        /\ \A k \in 1..Len(Outcomes) :
              /\ Outcomes[k].path = ExpectedAttempts[k]
              /\ OpOfStage(Outcomes[k].op, ExpectedStages[k])
        /\ pc \in {"pulling", "pushing", "conflicts", "deleting"} =>
              Len(Outcomes) = AttemptsBefore(pc, idx)
        /\ pc = "transfer" => Len(Outcomes) = AttemptsBefore("conflicts", idx)
        /\ pc \in {"completing", "done"} => Len(Outcomes) = Len(ExpectedAttempts)
        /\ \A i \in 1..Len(trace) :
              (trace[i].op = "rename" /\ trace[i].ok) =>
                  IF i = Len(trace)
                  THEN pc = "transfer" /\ plan.conflicts[idx].path = trace[i].path
                  ELSE trace[i + 1].path = trace[i].path /\ trace[i + 1].op = "pull"

\* C11 witness: a finished full-mode run that pulled, then resolved a conflict
\* with a rename, then deleted
C11_Witness ==
    /\ pc = "done"
    /\ mode = "full"
    /\ Len(trace) = 4
    /\ trace[1].op = "pull"
    /\ trace[2].op = "rename"
    /\ trace[4].op = "delete"

\* C16: a pull-mode run leaves the server's store as it is and attempts nothing
\* but pulls; a push-mode run leaves the vault as it is, renames nothing and
\* attempts nothing but pushes; whatever lists the plan fills.
C16_DirectionalModes ==
    [][/\ mode = "pull" =>
              /\ remoteStore' = remoteStore
              /\ \A i \in 1..Len(trace') : trace'[i].op = "pull"
       /\ mode = "push" =>
              /\ localStore' = localStore
              /\ renamedTo' = renamedTo
              /\ \A i \in 1..Len(trace') : trace'[i].op = "push"]_vars

\* C16 witness: a finished pull-mode run that pulled a file from a plan that also
\* held a push and a conflict
C16_Witness ==
    /\ pc = "done"
    /\ mode = "pull"
    /\ plan.toPush # <<>>
    /\ plan.conflicts # <<>>
    /\ \E i \in 1..Len(trace) : trace[i].op = "pull" /\ trace[i].ok

-----------------------------------------------------------------------------
(* Properties of sync(mode) with an unreliable manifest (SpecSync) *)

\* C12: a planSync produces a plan only when fetchManifest succeeded, and a
\* sync whose planSync failed touches neither store, creates no result, starts
\* no executeSync and performs no file operation, then and until sync is
\* called again.
C12_FatalPlanningErrors ==
    [][/\ (pc \in {"idle", "done", "failed"} /\ pc' = "planned") => net'.outcome = "ok"
       /\ (net' # net /\ net'.outcome = "error") => pc' = "failed"
       /\ pc' = "failed" => plan' = plan
       /\ (pc = "failed" \/ pc' = "failed") =>
              /\ localStore' = localStore
              /\ remoteStore' = remoteStore
              /\ result' = result
              /\ runs' = runs
              /\ trace' = trace
              /\ renamedTo' = renamedTo]_vars

\* C12 witness: after a completed run that transferred a file, a second sync
\* failed on the manifest
C12_Witness ==
    /\ pc = "failed"
    /\ net.outcome = "error"
    /\ runs >= 1
    /\ result.pulled + result.pushed > 0

-----------------------------------------------------------------------------
(* Properties of the resolver (SpecResolve) *)

\* the conflict of the plan and what the resolver answers for it
TheConflict == plan.conflicts[1]
TheResolution == resolve(isMobile, TheConflict, settings.conflictStrategy)

\* the transfers the run made for the conflict's path
ConflictTransfers ==
    {i \in 1..Len(trace) : trace[i].path = TheConflict.path /\ trace[i].op # "rename"}

\* C13: for every conflict and every strategy value resolve answers one action
\* for the conflict's path whose direction is pull or push, the run transfers
\* in that direction, and a strategy value outside the known ones is resolved
\* as newest-wins.
C13_ResolverTotal ==
    /\ TheResolution.action.direction \in {"pull", "push"}
    /\ TheResolution.action.path = TheConflict.path
    /\ TheResolution.preserveLocalCopy \in BOOLEAN
    /\ settings.conflictStrategy \notin Strategies =>
          TheResolution = resolve(isMobile, TheConflict, "newest-wins")
    /\ \A i \in ConflictTransfers : trace[i].op = TheResolution.action.direction

\* C13 witness: a finished run that resolved the conflict under a strategy value
\* outside the known ones
C13_Witness ==
    /\ pc = "done"
    /\ settings.conflictStrategy \notin Strategies
    /\ \E i \in ConflictTransfers : trace[i].ok

\* the conflict with other timestamps
Retimed(localTime, remoteDate) ==
    [TheConflict EXCEPT !.localModified = localTime, !.remoteModified = remoteDate]

\* C14: remote-wins answers a pull with reason "conflict: remote wins",
\* local-wins a push with reason "conflict: local wins", keep-both a pull with
\* preserveLocalCopy; no other strategy sets preserveLocalCopy; the three
\* answers are the same for whatever timestamps the conflict has, and the run
\* renames the local file under keep-both only.
C14_StrategyMapping ==
    LET strategy == settings.conflictStrategy
        answer(c) == resolve(isMobile, c, strategy)
    IN  /\ strategy = "remote-wins" =>
              /\ TheResolution.action.direction = "pull"
              /\ TheResolution.action.reason = "conflict: remote wins"
        /\ strategy = "local-wins" =>
              /\ TheResolution.action.direction = "push"
              /\ TheResolution.action.reason = "conflict: local wins"
        /\ strategy = "keep-both" => TheResolution.action.direction = "pull"
        /\ TheResolution.preserveLocalCopy <=> strategy = "keep-both"
        /\ strategy \in {"remote-wins", "local-wins", "keep-both"} =>
              \A localTime \in 0..MaxTime, remoteDate \in RemoteDates :
                  LET other == answer(Retimed(localTime, remoteDate))
                  IN  /\ other.action.direction = TheResolution.action.direction
                      /\ other.action.reason = TheResolution.action.reason
                      /\ other.preserveLocalCopy = TheResolution.preserveLocalCopy
        /\ (\E i \in 1..Len(trace) : trace[i].op = "rename") => strategy = "keep-both"
        /\ (pc = "done" /\ strategy = "keep-both") => TheConflict.path \in DOMAIN renamedTo
                                                       \/ result.errors # <<>>

\* C14 witness: a finished keep-both run that renamed the local file and pulled
C14_Witness ==
    /\ pc = "done"
    /\ settings.conflictStrategy = "keep-both"
    /\ TheConflict.path \in DOMAIN renamedTo
    /\ \E i \in ConflictTransfers : trace[i].op = "pull" /\ trace[i].ok

-----------------------------------------------------------------------------
(* Properties of the local-manifest cache (SpecCache) *)

\* C17 as stated: a planSync never makes its plan from a local manifest whose
\* scan began before an updateSettings or an executeSync that had returned
\* when the planSync started.
C17_CacheInvalidationAsStated ==
    building.returned # <<>> =>
        building.returned[1].manifestTag >= building.returned[1].startTag

-----------------------------------------------------------------------------
(* Properties of the transport client (SpecClient) *)

\* the statuses each method's call allows
AllowedFor(method) ==
    CASE method = "DELETE" -> {200, 202, 204, 404}
      [] method = "MKCOL" -> {201, 301, 405, 409}
      [] method = "PUT" -> {200, 201, 204}
      [] OTHER -> {}

\* the call ended with the request that was answered last
LastFailed ==
    /\ net.outcome = "error"
    /\ net.error = <<net.sent[Len(net.sent)].method, " ", net.sent[Len(net.sent)].path,
                     " failed with ", net.sent[Len(net.sent)].status>>

\* C18: a request answered with a status of 400 or more that its operation does
\* not allow ends the call with an error made of the method, the path and the
\* status, and no other answer ends a call with an error; deleteFile succeeds
\* on 404 and fails on every other status of 400 or more.
C18_StatusHandling ==
    /\ \A i \in 1..Len(net.sent) :
          LET answer == net.sent[i]
              refused == answer.status >= 400
                         /\ answer.status \notin AllowedFor(answer.method)
          IN  /\ refused => i = Len(net.sent) /\ LastFailed
              /\ (i = Len(net.sent) /\ net.outcome = "error") => refused
    /\ (net.op = "deleteFile" /\ net.sent # <<>>) =>
          /\ net.sent[1].method = "DELETE"
          /\ net.sent[1].status = 404 => net.outcome = "ok"
          /\ (net.sent[1].status >= 400 /\ net.sent[1].status # 404) => LastFailed

\* C18 witness: deleteFile returned after the server answered 404
C18_Witness ==
    /\ net.op = "deleteFile"
    /\ net.outcome = "ok"
    /\ net.sent[1].status = 404

\* the folders above a normalized path, the outermost first
AncestorsOf(path) ==
    LET isSlash(i) == path[i] = "/"
        slashes == SelectSeq([i \in 1..Len(path) |-> i], isSlash)
    IN  [k \in 1..Len(slashes) |-> SubSeq(path, 1, slashes[k] - 1)]

\* C19: the requests of putFileBinary are, in order, one MKCOL for each folder
\* above the path from the outermost to the innermost and then the PUT, as far
\* as the call got; an MKCOL answered 405 or 409 does not end the call; an MKCOL
\* answered any other status of 400 or more ends it with an error, so there is
\* no PUT; a call that returned has sent them all.
C19_PushDirectoryProtocol ==
    net.op = "putFileBinary" =>
        LET folders == AncestorsOf(net.path)
            count == Len(folders)
        IN  /\ Len(net.sent) <= count + 1
            /\ \A i \in 1..Len(net.sent) :
                  IF i <= count
                  THEN /\ net.sent[i].method = "MKCOL"
                       /\ net.sent[i].path = toWebDavPath(folders[i])
                       /\ net.sent[i].status \in {405, 409} =>
                              ~(i = Len(net.sent) /\ net.outcome = "error")
                       /\ (net.sent[i].status >= 400 /\ net.sent[i].status \notin {405, 409})
                              => i = Len(net.sent) /\ LastFailed
                  ELSE /\ net.sent[i].method = "PUT"
                       /\ net.sent[i].path = toWebDavPath(net.path)
            /\ net.outcome = "ok" => Len(net.sent) = count + 1
            /\ net.outcome = "running" => net.step = Len(net.sent) + 1

\* C19 witness: putFileBinary of a file two folders deep returned after its
\* MKCOLs were answered 405 and 409
C19_Witness ==
    /\ net.op = "putFileBinary"
    /\ net.outcome = "ok"
    /\ Len(net.sent) = 3
    /\ net.sent[1].status = 405
    /\ net.sent[2].status = 409

-----------------------------------------------------------------------------
(* Properties of fetchManifest inside sync (SpecSync) *)

\* the body is JSON with a usable file list: an object with a files
\* collection or with a record under a key that is a path
HasFileList(body) ==
    /\ body.kind = "object"
    /\ \/ body.files.shape \in {"array", "map"}
       \/ \E i \in 1..Len(body.keyed) :
             ~isMetadataKey(body.keyed[i].key) /\ looksLikeFilePath(body.keyed[i].key)

\* C20 as stated: when the body of the manifest response is not JSON or is
\* JSON without a usable file list, fetchManifest fails and sync stops with no
\* plan; the files-array body and the keyed-object bodies of one store give
\* the same manifest.
C20_FetchManifestAsStated ==
    /\ (net.op = "fetchManifest" /\ ~HasFileList(net.body[1])) =>
           net.outcome = "error" /\ pc = "failed"
    /\ \A b1, b2 \in {b \in ManifestBodies(remoteStore) : HasFileList(b)} :
           LET m1 == fetchManifestFrom(200, b1, now)
               m2 == fetchManifestFrom(200, b2, now)
           IN  m1.ok /\ m2.ok /\ m1.manifest = m2.manifest

-----------------------------------------------------------------------------
(* Properties of the progress events (SpecProgress) *)

\* the event is the one of an action of the plan: its place in its list, the
\* length of the list and the action's path
EventOfAction(event) ==
    \E list \in {plan.toPull, plan.toPush, plan.conflicts, plan.toDelete} :
        /\ event.current \in 1..Len(list)
        /\ event.total = Len(list)
        /\ event.path = list[event.current].path

CompleteEvents ==
    {k \in 1..Len(progress.events) : progress.events[k].stage = "complete"}

\* C21: once sync is called the first event is the planning event; during and
\* after executeSync every operation logged on a path comes after an event of
\* that path's action with its place in its list and the length of the list,
\* and every event but the first and the complete event is such an event
\* emitted when no operation on its path had been logged; there is no complete
\* event before executeSync ends and exactly one, the last event, once it has
\* ended, whether or not the run recorded errors.
C21_ProgressOrdering ==
    LET events == progress.events
        executing == pc \in {"pulling", "pushing", "conflicts", "transfer", "deleting",
                             "completing", "done"}
    IN  /\ pc # "idle" => events # <<>> /\ events[1].stage = "planning"
        /\ \A k \in 2..Len(events) : events[k].stage # "planning"
        /\ executing =>
              /\ \A j \in 1..Len(trace) :
                    \E k \in 1..Len(events) :
                        /\ events[k].path = trace[j].path
                        /\ events[k].attempted < j
                        /\ EventOfAction(events[k])
              /\ \A k \in 2..Len(events) :
                    events[k].stage # "complete" =>
                        /\ EventOfAction(events[k])
                        /\ \A j \in 1..Len(trace) :
                              j <= events[k].attempted => trace[j].path # events[k].path
        /\ IF pc = "done" THEN CompleteEvents = {Len(events)} ELSE CompleteEvents = {}

\* C21 witness: a run that recorded an error has ended, and its events are the
\* planning event, events of actions and the complete event
C21_Witness ==
    /\ pc = "done"
    /\ result.errors # <<>>
    /\ Len(progress.events) >= 4
    /\ progress.events[Len(progress.events)].stage = "complete"

-----------------------------------------------------------------------------
(* Properties of the plugin's calls (SpecPlugin) *)

\* the syncNow calls whose run of SyncEngine.sync is in flight
RunsInFlight == {c \in 1..Len(plugin.calls) : plugin.calls[c] = "running"}

\* C22 as stated: whatever the order of the syncNow calls, the settings
\* changes and the connection tests, at most one run of SyncEngine.sync is in
\* flight.
C22_RunSerializationAsStated == Cardinality(RunsInFlight) <= 1

-----------------------------------------------------------------------------
(* Properties of diffManifests on any pair of manifests (SpecDiff) *)

\* the local record, the checksum of the remote record ("" when the payload
\* has none) and the path of both
DiffLocal == localManifestCache[1].manifest.files[1]
DiffRemoteSum ==
    LET raw == net.body[1].files.items[1].checksum
    IN  IF raw = <<>> THEN <<>> ELSE raw[1]

\* C24: the path held by both manifests is in unchanged exactly when the two
\* checksums are equal and not empty; otherwise, two empty checksums included,
\* it is in exactly one of toPull, toPush and conflicts and not in unchanged.
C24_UnchangedNeedsChecksum ==
    pc = "planned" =>
        LET p == DiffLocal.path
            same == DiffLocal.checksum = DiffRemoteSum /\ DiffLocal.checksum # <<>>
        IN  /\ p \in UnchangedSet(plan) <=> same
            /\ Occurrences(plan, p) = 1
            /\ ~same => CountIn(plan.toPull, p) + CountIn(plan.toPush, p)
                            + CountIn(plan.conflicts, p) = 1

\* C24 witness: a plan over two manifests that both have an empty checksum
\* for the path, which is planned as changed
C24_Witness ==
    /\ pc = "planned"
    /\ DiffLocal.checksum = <<>>
    /\ DiffRemoteSum = <<>>
    /\ DiffLocal.path \in ActionPaths(plan)

-----------------------------------------------------------------------------
(* Properties of syncNow around the engine's runs (SpecSyncNow) *)

\* the counts syncNow copies from a result
StatsOf(res) == [pulled |-> res.pulled, pushed |-> res.pushed, conflicts |-> res.conflicts]

\* C27: lastSyncTimestamp and lastSyncStats change only in the step in which a
\* running syncNow receives the result of sync, and they become the result's
\* endedAt and its counts; in the step in which a running syncNow catches the
\* error of sync both stay as they were and the status becomes error.
C27_LastSyncOnlyOnResult ==
    [][/\ (\/ settings'.lastSyncTimestamp # settings.lastSyncTimestamp
           \/ plugin'.lastSyncStats # plugin.lastSyncStats) =>
              /\ pc = "done"
              /\ \E c \in 1..Len(plugin.calls) :
                    plugin.calls[c] = "running" /\ plugin'.calls[c] = "returned"
       /\ (\E c \in 1..Len(plugin.calls) :
              plugin.calls[c] = "running" /\ plugin'.calls[c] = "returned") =>
              /\ settings'.lastSyncTimestamp = result.endedAt
              /\ plugin'.lastSyncStats = <<StatsOf(result)>>
       /\ (\E c \in 1..Len(plugin.calls) :
              plugin.calls[c] = "running" /\ plugin'.calls[c] = "threw") =>
              /\ settings'.lastSyncTimestamp = settings.lastSyncTimestamp
              /\ plugin'.lastSyncStats = plugin.lastSyncStats
              /\ plugin'.status = "error"
       /\ (pc' = "failed") =>
              /\ settings'.lastSyncTimestamp = settings.lastSyncTimestamp
              /\ plugin'.lastSyncStats = plugin.lastSyncStats
      ]_vars

\* C27 witness: a first syncNow returned a result with an error in it, a
\* second one threw, and the settings still hold the time and the counts of the
\* first
C27_Witness ==
    /\ plugin.calls = <<"returned", "threw">>
    /\ plugin.status = "error"
    /\ result.errors # <<>>
    /\ settings.lastSyncTimestamp = result.endedAt
    /\ plugin.lastSyncStats = <<StatsOf(result)>>

\* the manifest request of the plan was answered with the server's list of files
ManifestListed ==
    /\ net.op = "fetchManifest"
    /\ net.outcome = "ok"
    /\ net.body = <<Body("object", "array", ServerPayload(remoteStore), <<>>)>>

\* the run failed to resolve the conflict on p (the rename of keep-both failed,
\* which only the conflict loop attempts) and no step of it changed a file
ConflictFailedOn(p) ==
    /\ \E j \in 1..Len(trace) : trace[j].op = "rename" /\ trace[j].path = p
    /\ \E k \in 1..Len(result.errors) : result.errors[k].path = p
    /\ \A j \in 1..Len(trace) : ~trace[j].ok

\* C28 as stated: when the full sync of a first syncNow failed to resolve the
\* conflict on a path and no file changed, the plan of the next syncNow, made
\* from the same two stores, holds the path in conflicts again.
C28_ConflictKeptAsStated ==
    (/\ mode = "full"
     /\ pc = "planned"
     /\ plugin.calls = <<"returned", "running">>
     /\ ManifestListed
     /\ ConflictFailedOn(TaskNote))
        => TaskNote \in PathsIn(plan.conflicts)

-----------------------------------------------------------------------------
(* Properties of the filter on the two maps of the diff (SpecPlan) *)

\* the plan takes the path for a file that only one side has
PlannedAsNew(p) ==
    \/ \E k \in 1..Len(plan.toPush) :
          plan.toPush[k].path = p /\ plan.toPush[k].reason = "new local file"
    \/ \E k \in 1..Len(plan.toPull) :
          plan.toPull[k].path = p /\ plan.toPull[k].reason = "new remote file"

\* C29 as stated: for a file that the vault and the server both hold, the
\* filter keeps the local record if and only if it keeps the remote record, and
\* the plan never takes the file for a new local or a new remote file.
C29_FilterSymmetricAsStated ==
    JustPlanned =>
        \A p \in DOMAIN localStore \cap DOMAIN remoteStore :
            /\ KeptLocal(p) <=> KeptRemote(p)
            /\ ~PlannedAsNew(p)

-----------------------------------------------------------------------------
(* Properties of the local content under keep-both (Spec) *)

\* the content is in the store at path p or at the conflict copy that the
\* renames rn record for p
HeldFor(store, rn, p, content) ==
    \/ p \in DOMAIN store /\ store[p].content = content
    \/ /\ p \in DOMAIN rn
       /\ rn[p].to \in DOMAIN store
       /\ store[rn[p].to].content = content

\* C30: under keep-both no step of a run loses the local content of a
\* conflicting path: content that the vault holds at the path before its
\* rename is, after the step, at the path or at its conflict copy; and once
\* the file has been renamed the copy keeps that content through every later
\* step, whether the pull succeeds or fails.
C30_LocalContentNeverLost ==
    [][(settings.conflictStrategy = "keep-both" /\ pc # "planned") =>
          /\ \A p \in (PathsIn(plan.conflicts) \cap DOMAIN localStore) \ DOMAIN renamedTo :
                HeldFor(localStore', renamedTo', p, localStore[p].content)
          /\ \A p \in DOMAIN renamedTo :
                /\ p \in DOMAIN renamedTo'
                /\ renamedTo'[p] = renamedTo[p]
                /\ HeldFor(localStore', renamedTo', p, renamedTo[p].content)
                /\ renamedTo[p].to \in DOMAIN localStore'
                /\ localStore'[renamedTo[p].to].content = renamedTo[p].content
      ]_vars

\* C30 witness: the run is over, the rename of keep-both succeeded and the pull
\* after it failed: the path is vacant and the copy holds the local content
C30_Witness ==
    /\ pc = "done"
    /\ settings.conflictStrategy = "keep-both"
    /\ \E p \in DOMAIN renamedTo :
          /\ \E i \in 1..Len(trace) :
                trace[i].op = "pull" /\ trace[i].path = p /\ ~trace[i].ok
          /\ p \notin DOMAIN localStore
          /\ HeldFor(localStore, renamedTo, p, renamedTo[p].content)

-----------------------------------------------------------------------------
(* Properties of the stores after a run (Spec) *)

\* the paths the plan transfers
TransferPaths(pl) == PathsIn(pl.toPull) \cup PathsIn(pl.toPush) \cup PathsIn(pl.conflicts)

\* the two stores hold the path with the same content
Converged(p) ==
    /\ p \in DOMAIN localStore
    /\ p \in DOMAIN remoteStore
    /\ localStore[p].content = remoteStore[p].content

\* a sync("full") has returned a result without errors
CleanFullRun == pc = "done" /\ mode = "full" /\ result.errors = <<>>

\* C31: when sync("full") has returned a result without errors, every path the
\* plan listed in toPull, toPush or conflicts is in both stores with the same
\* content, whatever the conflict strategy.
C31_Convergence ==
    CleanFullRun => \A p \in TransferPaths(plan) : Converged(p)

\* C31 witness: a clean full run that resolved a conflict and pushed or pulled
\* another file, the contents of the conflicting file having differed
C31_Witness ==
    /\ CleanFullRun
    /\ plan.conflicts # <<>>
    /\ Len(plan.toPull) + Len(plan.toPush) > 0
    /\ \A p \in TransferPaths(plan) : Converged(p)
    /\ \E i \in 1..Len(trace) : trace[i].path \in PathsIn(plan.conflicts) /\ trace[i].ok

-----------------------------------------------------------------------------
(* Properties of what a run removes (Spec) *)

\* every path of the store before is a path of the store after
KeepsPaths(before, after) == DOMAIN before \subseteq DOMAIN after

\* the plan pl, made from the local records and the stores as they are, sends
\* a file that only one side holds to the other side, when the filter keeps it
\* and the mode has that direction
OneSidedPropagated(pl, localFiles) ==
    /\ \A p \in DOMAIN localStore \ DOMAIN remoteStore :
          (KeptIn(localFiles, p) /\ mode # "pull") => p \in PathsIn(pl.toPush)
    /\ \A p \in DOMAIN remoteStore \ DOMAIN localStore :
          (KeptRemote(p) /\ mode # "push") => p \in PathsIn(pl.toPull)

\* the step is planSync returning its plan
PlanSyncReturns == pc # "planned" /\ pc' = "planned"

\* C32 as stated: every plan has an empty toDelete, result.deleted stays 0, no
\* step removes a path from the remote store or from the local store, and a
\* plan sends a one-sided file to the other side.
C32_NeverDeletesAsStated ==
    [][/\ plan'.toDelete = <<>>
       /\ result'.deleted = 0
       /\ KeepsPaths(remoteStore, remoteStore')
       /\ KeepsPaths(localStore, localStore')
       /\ PlanSyncReturns =>
             OneSidedPropagated(plan', localManifestCache'[1].manifest.files)
      ]_vars

\* C32, amended: as stated for the plan, the count and the remote store; a
\* path leaves the local store only in the rename of a keep-both conflict,
\* which moves the file to its conflict copy.
C32_NeverDeletes ==
    [][/\ plan'.toDelete = <<>>
       /\ result'.deleted = 0
       /\ KeepsPaths(remoteStore, remoteStore')
       /\ \A p \in DOMAIN localStore \ DOMAIN localStore' :
             /\ pc = "conflicts"
             /\ p = plan.conflicts[idx].path
             /\ CurrentResolution.preserveLocalCopy
             /\ p \in DOMAIN renamedTo'
             /\ renamedTo'[p].to \in DOMAIN localStore' \ DOMAIN localStore
             /\ localStore'[renamedTo'[p].to] = localStore[p]
       /\ PlanSyncReturns =>
             OneSidedPropagated(plan', localManifestCache'[1].manifest.files)
      ]_vars

\* C32 witness: a full run is over that pushed a file only the vault had and
\* renamed a conflicting file whose pull then failed, so that its path is vacant
C32_Witness ==
    /\ pc = "done"
    /\ mode = "full"
    /\ plan.toDelete = <<>>
    /\ result.deleted = 0
    /\ \E k \in 1..Len(plan.toPush) :
          /\ plan.toPush[k].reason = "new local file"
          /\ plan.toPush[k].path \in DOMAIN remoteStore
    /\ \E p \in DOMAIN renamedTo :
          p \notin DOMAIN localStore /\ renamedTo[p].to \in DOMAIN localStore

-----------------------------------------------------------------------------
(* Properties of the runtime status (SpecPluginSettles) *)

\* call c of syncNow has set the status to syncing and has not ended
InFlight(c) == c <= Len(plugin.calls) /\ plugin.calls[c] \in {"running", "saving"}

\* call c of syncNow has ended after it had set the status to syncing
Ended(c) == c <= Len(plugin.calls) /\ plugin.calls[c] \in {"returned", "threw"}

\* C33: every call of syncNow that set the status to syncing ends, and the step
\* in which it ends sets the status to idle when it returns its result and to
\* error when it caught an error; the status is syncing only while such a call
\* has not ended.
C33_SyncingIsLeft ==
    /\ \A c \in 1..MaxCalls : InFlight(c) ~> Ended(c)
    /\ [][\A c \in 1..Len(plugin.calls) :
             (InFlight(c) /\ ~InFlight(c)') =>
                 /\ plugin'.calls[c] = "returned" => plugin'.status = "idle"
                 /\ plugin'.calls[c] = "threw" => plugin'.status = "error"
                 /\ plugin'.calls[c] \in {"returned", "threw"}]_vars
    /\ [](plugin.status = "syncing" => \E c \in 1..MaxCalls : InFlight(c))

\* C33 witness: one call has returned and another has caught an error, none is
\* left and the status is not syncing
C33_Witness ==
    /\ \E c \in 1..Len(plugin.calls) : plugin.calls[c] = "returned"
    /\ \E c \in 1..Len(plugin.calls) : plugin.calls[c] = "threw"
    /\ \A c \in 1..Len(plugin.calls) : ~InFlight(c)
    /\ plugin.status \in {"idle", "error"}

-----------------------------------------------------------------------------
(* Properties of the plan over repeated and differently spelt paths          *)
(* (SpecSpellings)                                                            *)

\* the number of entries of the five lists of the plan whose path is a
\* spelling of p
SpellingOccurrences(pl, p) ==
    LET spelt(list) == Cardinality({k \in 1..Len(list) : normalizePath(list[k].path) = p})
    IN  spelt(pl.toPull) + spelt(pl.toPush) + spelt(pl.conflicts) + spelt(pl.toDelete)
            + Cardinality({k \in 1..Len(pl.unchanged) : normalizePath(pl.unchanged[k]) = p})

\* the paths the two manifests handed to the diff list, as they spell them
SpeltLocal == PathsIn(localManifestCache[1].manifest.files)
SpeltRemote == {net.body[1].files.items[k].path[1] : k \in 1..Len(net.body[1].files.items)}

\* C34: in the plan made from manifests that list a file more than once or
\* under several spellings, the file has at most one entry in toPull, toPush,
\* conflicts, toDelete and unchanged together, and the entry names it by its
\* normalized path.
C34_NoDoubleClassification ==
    pc = "planned" =>
        /\ \A p \in {normalizePath(q) : q \in SpeltLocal \cup SpeltRemote} :
              /\ SpellingOccurrences(plan, p) <= 1
              /\ Occurrences(plan, p) = SpellingOccurrences(plan, p)
        /\ \A q \in ActionPaths(plan) \cup UnchangedSet(plan) : normalizePath(q) = q

\* C34 witness: a full-mode plan from a local manifest that lists the file
\* twice under two spellings and a remote manifest that lists it twice as
\* well; the file is listed once
C34_Witness ==
    /\ pc = "planned"
    /\ mode = "full"
    /\ Cardinality(SpeltLocal) = 2
    /\ Len(net.body[1].files.items) = 2
    /\ Occurrences(plan, TaskNote) = 1
    /\ TaskNote \in ActionPaths(plan)

====
